---- MODULE Spec2Model ----
(***************************************************************************)
(* Maze race of two mice (adyatlov/aimazing).                              *)
(*                                                                         *)
(* The repository holds two implementations of the game core:              *)
(*   "game"   lib/game.ts   (src/cli.ts:162-582): a Game record that       *)
(*            carries players, turn, status and result;                    *)
(*   "server" server/lib/game.ts (src/server/lib/types.ts:59-244) with the *)
(*            SqliteGameStore (src/unnamed/part_002): a GameState record   *)
(*            with the mice, and the status kept beside it by the store.   *)
(* Init picks the implementation a match runs on (variable variant).       *)
(*                                                                         *)
(* Spec      the operations of the game core called in any order.          *)
(* SpecCalls Spec with calls that pass an index that names no mouse.       *)
(* SpecLoop  the game loop (runGame / runGameLoop) driving one match.      *)
(* SpecTurn  the game loop with the two getAction calls of every turn.     *)
(* SpecMatch the join and start requests of a match next to its loop.      *)
(* SpecMaze  generateMaze, step by step, and the games created on it.      *)
(* SpecWalk  the solution walk of generateMaze alone, with its fairness.   *)
(* SpecSubs  a WebSocket connection, its subscriptions and the views.      *)
(***************************************************************************)
EXTENDS Integers, Sequences, FiniteSets, TLC

VARIABLES
    variant,        \* "game" or "server": the implementation in use
    game,           \* the Game (lib/types) or the store's Game (gameStore.ts)
    thrown,         \* message of the Error thrown by the last call, or "none"
    pc,             \* position of the game loop
    actions,        \* the pair of actions the action provider returned
    onTurnCalls,    \* arguments of the onTurn invocations, in order
    onGameEndCalls, \* arguments of the onGameEnd invocations, in order
    visions,        \* the pair of visions taken for the turn being decided
    results,        \* the getAction results of the turn, in order of arrival
    delivered,      \* the last game a reader (get, subscriber) was handed
    router,         \* the router that serves the match
    isRunning,      \* session.isRunning / runningGames.has(gameId)
    loops,          \* number of runGameLoop calls that have not returned
    gen,            \* generateMaze: its argument, locals and position
    ws              \* a WebSocket connection and the game subscribers

\* The variables of the routers and of the maze generator.
turnVars == <<visions, results, delivered, router, isRunning, loops, gen, ws>>

vars == <<variant, game, thrown, pc, actions, onTurnCalls, onGameEndCalls,
          visions, results, delivered, router, isRunning, loops, gen, ws>>

\* ------------------------------------------------------------------ bounds
\* Largest turn ceiling (maxTurns) a modelled game is created with.
MaxTurnsBound == 2
\* Smallest and largest size generateMaze is called with.
MinMazeSize == 3
MaxMazeSize == 8
\* Largest maze built with every random choice open, and the number of
\* random choices other than the first candidate in a larger maze.
FullyRandomSize == 7
MaxFreeChoices == 1
\* Longest list of tool calls one generateText call resolves with.
MaxToolCalls == 2

\* ------------------------------------------------------------------ values
Facings == {"NORTH", "SOUTH", "EAST", "WEST"}

\* MouseAction: turn is optional in the source (undefined is "NONE" here).
MouseActions == [turn : {"NONE", "LEFT", "RIGHT"}, move : BOOLEAN]

Pos(px, py) == [x |-> px, y |-> py]

\* `${x},${y}`: the key of a cell in an explored set.
posKey(x, y) == <<x, y>>

\* A size x size grid of cells, maze[y][x], PATH on the listed cells.
MakeMaze(size, paths) ==
    [y \in 0..(size - 1) |->
        [x \in 0..(size - 1) |-> IF <<x, y>> \in paths THEN "PATH" ELSE "WALL"]]

\* maze.length
MazeLength(maze) == Cardinality(DOMAIN maze)

\* The mazes, entrances and exits games are created with.
\*   ring       . . .     walled     # # # #
\*              . # .                # . # .
\*              . . .                # . . .
\*                                   # # # #
RingPaths == {<<0, 0>>, <<1, 0>>, <<2, 0>>, <<0, 1>>, <<2, 1>>,
              <<0, 2>>, <<1, 2>>, <<2, 2>>}
WalledPaths == {<<1, 1>>, <<3, 1>>, <<1, 2>>, <<2, 2>>, <<3, 2>>}

MazeResults ==
    { [maze |-> MakeMaze(3, RingPaths), entrance |-> Pos(0, 0), exit |-> Pos(1, 0)],
      [maze |-> MakeMaze(4, WalledPaths), entrance |-> Pos(1, 1), exit |-> Pos(2, 2)] }

\* A `const` declaration: the value is computed once, then named in the rest
\* of the function body.
Const(value, rest(_)) == CHOOSE result \in {rest(v) : v \in {value}} : TRUE

Throw(message) == [ok |-> FALSE, error |-> message]
Return(value) == [ok |-> TRUE, value |-> value]

\* ------------------------------------------------------- facing and cells
getPositionInFront(pos, facing) ==
    CASE facing = "NORTH" -> Pos(pos.x, pos.y - 1)
      [] facing = "SOUTH" -> Pos(pos.x, pos.y + 1)
      [] facing = "EAST"  -> Pos(pos.x + 1, pos.y)
      [] facing = "WEST"  -> Pos(pos.x - 1, pos.y)

\* turnLeft that turns the same way as turnRight.
turnLeft_clockwise(facing) ==
    CASE facing = "NORTH" -> "EAST"
      [] facing = "EAST"  -> "SOUTH"
      [] facing = "SOUTH" -> "WEST"
      [] facing = "WEST"  -> "NORTH"

turnLeft(facing) ==
    CASE facing = "NORTH" -> "WEST"
      [] facing = "WEST"  -> "SOUTH"
      [] facing = "SOUTH" -> "EAST"
      [] facing = "EAST"  -> "NORTH"

turnRight(facing) ==
    CASE facing = "NORTH" -> "EAST"
      [] facing = "EAST"  -> "SOUTH"
      [] facing = "SOUTH" -> "WEST"
      [] facing = "WEST"  -> "NORTH"

\* ------------------------------------------------------------ exploration
\* Line of sight: walk from startPos in facing, adding every cell up to and
\* including the first WALL; stop at the grid boundary.  Returns the mouse.
RECURSIVE exploreDirection(_, _, _, _)
exploreDirection(maze, mouse, startPos, facing) ==
    LET size == MazeLength(maze)
        next == getPositionInFront(startPos, facing)
    IN  IF next.x < 0 \/ next.x >= size \/ next.y < 0 \/ next.y >= size
        THEN mouse
        ELSE LET seen == [mouse EXCEPT !.explored = @ \cup {posKey(next.x, next.y)}]
             IN  IF maze[next.y][next.x] = "WALL"
                 THEN seen
                 ELSE exploreDirection(maze, seen, next, facing)

\* expandExplored that casts the three lines but leaves out the mouse's cell.
expandExplored_withoutOwnCell(maze, mouse) ==
    LET position == mouse.position
        facing == mouse.facing
        m1 == exploreDirection(maze, mouse, position, facing)
        m2 == exploreDirection(maze, m1, position, turnLeft(facing))
    IN  exploreDirection(maze, m2, position, turnRight(facing))

\* expandExplored that also casts a line behind the mouse.
expandExplored_looksBack(maze, mouse) ==
    LET position == mouse.position
        facing == mouse.facing
        m0 == [mouse EXCEPT !.explored = @ \cup {posKey(position.x, position.y)}]
        m1 == exploreDirection(maze, m0, position, facing)
        m2 == exploreDirection(maze, m1, position, turnLeft(facing))
        m3 == exploreDirection(maze, m2, position, turnRight(facing))
    IN  exploreDirection(maze, m3, position, turnLeft(turnLeft(facing)))

expandExplored(maze, mouse) ==
    LET position == mouse.position
        facing == mouse.facing
        m0 == [mouse EXCEPT !.explored = @ \cup {posKey(position.x, position.y)}]
        m1 == exploreDirection(maze, m0, position, facing)
        m2 == exploreDirection(maze, m1, position, turnLeft(facing))
    IN  exploreDirection(maze, m2, position, turnRight(facing))

\* ------------------------------------------------------ lib/game.ts ("game")
createGameWithMaze(maze, entrance, exit, maxTurns) ==
    [maze |-> maze, entrance |-> entrance, exit |-> exit, players |-> <<>>,
     turn |-> 0, maxTurns |-> maxTurns, status |-> "WAITING", result |-> "null"]

\* addPlayer that starts the game with the first player.
\* addPlayer without its two checks.
addPlayer_unchecked(g) ==
    LET mouse == [position |-> g.entrance,
                  facing |-> "EAST",
                  explored |-> {posKey(g.entrance.x, g.entrance.y)},
                  actionHistory |-> <<>>]
        player == [mouse |-> expandExplored(g.maze, mouse)]
        newPlayers == Append(g.players, player)
        newStatus == IF Len(newPlayers) = 2 THEN "PLAYING" ELSE "WAITING"
    IN  Return([g EXCEPT !.players = newPlayers, !.status = newStatus])

addPlayer_startsAtOnce(g) ==
    IF Len(g.players) >= 2 THEN Throw("Game already has 2 players")
    ELSE IF g.status # "WAITING"
    THEN Throw("Cannot add player to a game that is not waiting")
    ELSE LET mouse == [position |-> g.entrance,
                       facing |-> "EAST",
                       explored |-> {posKey(g.entrance.x, g.entrance.y)},
                       actionHistory |-> <<>>]
             player == [mouse |-> expandExplored(g.maze, mouse)]
         IN  Return([g EXCEPT !.players = Append(g.players, player),
                              !.status = "PLAYING"])

addPlayer(g) ==
    IF Len(g.players) >= 2 THEN Throw("Game already has 2 players")
    ELSE IF g.status # "WAITING"
    THEN Throw("Cannot add player to a game that is not waiting")
    ELSE LET mouse == [position |-> g.entrance,
                       facing |-> "EAST",
                       explored |-> {posKey(g.entrance.x, g.entrance.y)},
                       actionHistory |-> <<>>]
             player == [mouse |-> expandExplored(g.maze, mouse)]
             newPlayers == Append(g.players, player)
             newStatus == IF Len(newPlayers) = 2 THEN "PLAYING" ELSE "WAITING"
         IN  Return([g EXCEPT !.players = newPlayers, !.status = newStatus])

\* movedMouse that tests the bounds of the front cell but not its type.
movedMouse_throughWalls(maze, mouse, action) ==
    LET newFacing == IF action.turn = "LEFT" THEN turnLeft(mouse.facing)
                     ELSE IF action.turn = "RIGHT" THEN turnRight(mouse.facing)
                     ELSE mouse.facing
        frontPos == getPositionInFront(mouse.position, newFacing)
        size == MazeLength(maze)
        isValidMove == /\ frontPos.x >= 0
                       /\ frontPos.x < size
                       /\ frontPos.y >= 0
                       /\ frontPos.y < size
        newPosition == IF action.move /\ isValidMove THEN frontPos ELSE mouse.position
        newMouse == [position |-> newPosition,
                     facing |-> newFacing,
                     explored |-> mouse.explored,
                     actionHistory |-> Append(mouse.actionHistory, action)]
    IN  expandExplored(maze, newMouse)

\* movedMouse that returns the mouse untouched when the move is blocked.
movedMouse_blockedIsIgnored(maze, mouse, action) ==
    LET newFacing == IF action.turn = "LEFT" THEN turnLeft(mouse.facing)
                     ELSE IF action.turn = "RIGHT" THEN turnRight(mouse.facing)
                     ELSE mouse.facing
        frontPos == getPositionInFront(mouse.position, newFacing)
        size == MazeLength(maze)
        isValidMove == /\ frontPos.x >= 0
                       /\ frontPos.x < size
                       /\ frontPos.y >= 0
                       /\ frontPos.y < size
                       /\ maze[frontPos.y][frontPos.x] = "PATH"
        newPosition == IF action.move /\ isValidMove THEN frontPos ELSE mouse.position
        newMouse == [position |-> newPosition,
                     facing |-> newFacing,
                     explored |-> mouse.explored,
                     actionHistory |-> Append(mouse.actionHistory, action)]
    IN  IF action.move /\ ~isValidMove
        THEN [mouse EXCEPT !.actionHistory = Append(@, action)]
        ELSE expandExplored(maze, newMouse)

\* movedMouse whose new mouse starts from an empty explored set.
movedMouse_forgets(maze, mouse, action) ==
    LET newFacing == IF action.turn = "LEFT" THEN turnLeft(mouse.facing)
                     ELSE IF action.turn = "RIGHT" THEN turnRight(mouse.facing)
                     ELSE mouse.facing
        frontPos == getPositionInFront(mouse.position, newFacing)
        size == MazeLength(maze)
        isValidMove == /\ frontPos.x >= 0
                       /\ frontPos.x < size
                       /\ frontPos.y >= 0
                       /\ frontPos.y < size
                       /\ maze[frontPos.y][frontPos.x] = "PATH"
        newPosition == IF action.move /\ isValidMove THEN frontPos ELSE mouse.position
        newMouse == [position |-> newPosition,
                     facing |-> newFacing,
                     explored |-> {},
                     actionHistory |-> Append(mouse.actionHistory, action)]
    IN  expandExplored(maze, newMouse)

\* movedMouse that keeps a blocked move out of the history.
movedMouse_dropsBlocked(maze, mouse, action) ==
    LET newFacing == IF action.turn = "LEFT" THEN turnLeft(mouse.facing)
                     ELSE IF action.turn = "RIGHT" THEN turnRight(mouse.facing)
                     ELSE mouse.facing
        frontPos == getPositionInFront(mouse.position, newFacing)
        size == MazeLength(maze)
        isValidMove == /\ frontPos.x >= 0
                       /\ frontPos.x < size
                       /\ frontPos.y >= 0
                       /\ frontPos.y < size
                       /\ maze[frontPos.y][frontPos.x] = "PATH"
        newPosition == IF action.move /\ isValidMove THEN frontPos ELSE mouse.position
        newMouse == [position |-> newPosition,
                     facing |-> newFacing,
                     explored |-> mouse.explored,
                     actionHistory |-> IF action.move /\ ~isValidMove
                                      THEN mouse.actionHistory
                                      ELSE Append(mouse.actionHistory, action)]
    IN  expandExplored(maze, newMouse)

\* movedMouse that moves along the facing the mouse had before the turn.
movedMouse_movesThenTurns(maze, mouse, action) ==
    LET newFacing == IF action.turn = "LEFT" THEN turnLeft(mouse.facing)
                     ELSE IF action.turn = "RIGHT" THEN turnRight(mouse.facing)
                     ELSE mouse.facing
        frontPos == getPositionInFront(mouse.position, mouse.facing)
        size == MazeLength(maze)
        isValidMove == /\ frontPos.x >= 0
                       /\ frontPos.x < size
                       /\ frontPos.y >= 0
                       /\ frontPos.y < size
                       /\ maze[frontPos.y][frontPos.x] = "PATH"
        newPosition == IF action.move /\ isValidMove THEN frontPos ELSE mouse.position
        newMouse == [position |-> newPosition,
                     facing |-> newFacing,
                     explored |-> mouse.explored,
                     actionHistory |-> Append(mouse.actionHistory, action)]
    IN  expandExplored(maze, newMouse)

\* The mouse after one action: turn first, then the move, then the new cast.
movedMouse(maze, mouse, action) ==
    LET newFacing == IF action.turn = "LEFT" THEN turnLeft(mouse.facing)
                     ELSE IF action.turn = "RIGHT" THEN turnRight(mouse.facing)
                     ELSE mouse.facing
        frontPos == getPositionInFront(mouse.position, newFacing)
        size == MazeLength(maze)
        isValidMove == /\ frontPos.x >= 0
                       /\ frontPos.x < size
                       /\ frontPos.y >= 0
                       /\ frontPos.y < size
                       /\ maze[frontPos.y][frontPos.x] = "PATH"
        newPosition == IF action.move /\ isValidMove THEN frontPos ELSE mouse.position
        newMouse == [position |-> newPosition,
                     facing |-> newFacing,
                     explored |-> mouse.explored,
                     actionHistory |-> Append(mouse.actionHistory, action)]
    IN  expandExplored(maze, newMouse)

\* applyAction that takes the index modulo the number of players.
applyAction_wrapsIndex(g, playerIndex, action) ==
    IF Len(g.players) = 0 THEN Throw("Invalid player index")
    ELSE LET k == (playerIndex % Len(g.players)) + 1
             newPlayer == [g.players[k] EXCEPT
                              !.mouse = movedMouse(g.maze, g.players[k].mouse, action)]
         IN  Return([g EXCEPT !.players[k] = newPlayer])

\* applyAction that moves every mouse of the game by the action.
applyAction_actsOnAll(g, playerIndex, action) ==
    IF playerIndex < 0 \/ playerIndex >= Len(g.players)
    THEN Throw("Invalid player index")
    ELSE Return([g EXCEPT !.players =
                    [k \in DOMAIN g.players |->
                        [g.players[k] EXCEPT
                            !.mouse = movedMouse(g.maze, g.players[k].mouse, action)]]])

\* playerIndex counts from 0 as in the source; players is a 1-based sequence.
applyAction(g, playerIndex, action) ==
    IF playerIndex < 0 \/ playerIndex >= Len(g.players)
    THEN Throw("Invalid player index")
    ELSE LET player == g.players[playerIndex + 1]
             newPlayer == [player EXCEPT !.mouse = movedMouse(g.maze, player.mouse, action)]
         IN  Return([g EXCEPT !.players[playerIndex + 1] = newPlayer])

\* checkGameEnd with the single-mouse tests ahead of the joint one.
checkGameEnd_firstMouseFirst(g) ==
    IF g.status # "PLAYING" THEN g
    ELSE IF g.players[1].mouse.position = g.exit
    THEN [g EXCEPT !.status = "FINISHED", !.result = "PLAYER1_WIN"]
    ELSE IF g.players[2].mouse.position = g.exit
    THEN [g EXCEPT !.status = "FINISHED", !.result = "PLAYER2_WIN"]
    ELSE IF g.turn >= g.maxTurns
    THEN [g EXCEPT !.status = "FINISHED", !.result = "DRAW"]
    ELSE g

\* checkGameEnd that finishes a game at the ceiling without a result.
checkGameEnd_ceilingWithoutResult(g) ==
    IF g.status # "PLAYING" THEN g
    ELSE LET player1AtExit == g.players[1].mouse.position = g.exit
             player2AtExit == g.players[2].mouse.position = g.exit
         IN  IF player1AtExit /\ player2AtExit
             THEN [g EXCEPT !.status = "FINISHED", !.result = "DRAW"]
             ELSE IF player1AtExit
             THEN [g EXCEPT !.status = "FINISHED", !.result = "PLAYER1_WIN"]
             ELSE IF player2AtExit
             THEN [g EXCEPT !.status = "FINISHED", !.result = "PLAYER2_WIN"]
             ELSE IF g.turn >= g.maxTurns
             THEN [g EXCEPT !.status = "FINISHED"]
             ELSE g

\* checkGameEnd that looks at the first mouse and the ceiling only.
checkGameEnd_secondMouseUnseen(g) ==
    IF g.status # "PLAYING" THEN g
    ELSE IF g.players[1].mouse.position = g.exit
    THEN [g EXCEPT !.status = "FINISHED", !.result = "PLAYER1_WIN"]
    ELSE IF g.turn >= g.maxTurns
    THEN [g EXCEPT !.status = "FINISHED", !.result = "DRAW"]
    ELSE g

\* checkGameEnd that lets the counter pass the ceiling by one turn.
checkGameEnd_lateCeiling(g) ==
    IF g.status # "PLAYING" THEN g
    ELSE LET player1AtExit == g.players[1].mouse.position = g.exit
             player2AtExit == g.players[2].mouse.position = g.exit
         IN  IF player1AtExit /\ player2AtExit
             THEN [g EXCEPT !.status = "FINISHED", !.result = "DRAW"]
             ELSE IF player1AtExit
             THEN [g EXCEPT !.status = "FINISHED", !.result = "PLAYER1_WIN"]
             ELSE IF player2AtExit
             THEN [g EXCEPT !.status = "FINISHED", !.result = "PLAYER2_WIN"]
             ELSE IF g.turn > g.maxTurns
             THEN [g EXCEPT !.status = "FINISHED", !.result = "DRAW"]
             ELSE g

checkGameEnd(g) ==
    IF g.status # "PLAYING" THEN g
    ELSE LET player1AtExit == /\ g.players[1].mouse.position.x = g.exit.x
                              /\ g.players[1].mouse.position.y = g.exit.y
             player2AtExit == /\ g.players[2].mouse.position.x = g.exit.x
                              /\ g.players[2].mouse.position.y = g.exit.y
         IN  IF player1AtExit /\ player2AtExit
             THEN [g EXCEPT !.status = "FINISHED", !.result = "DRAW"]
             ELSE IF player1AtExit
             THEN [g EXCEPT !.status = "FINISHED", !.result = "PLAYER1_WIN"]
             ELSE IF player2AtExit
             THEN [g EXCEPT !.status = "FINISHED", !.result = "PLAYER2_WIN"]
             ELSE IF g.turn >= g.maxTurns
             THEN [g EXCEPT !.status = "FINISHED", !.result = "DRAW"]
             ELSE g

\* executeTurn that looks for the end of the game after each mouse's action.
executeTurn_firstToFinish(g, acts) ==
    IF g.status # "PLAYING" THEN Throw("Game is not in playing state")
    ELSE IF Len(g.players) # 2 THEN Throw("Game does not have 2 players")
    ELSE Const(applyAction(g, 0, acts[1]).value, LAMBDA g1 :
         Const(checkGameEnd([g1 EXCEPT !.turn = @ + 1]), LAMBDA e1 :
         Const(applyAction(g1, 1, acts[2]).value, LAMBDA g2 :
           IF e1.status = "FINISHED" THEN Return(e1)
           ELSE Return(checkGameEnd([g2 EXCEPT !.turn = @ + 1])))))

executeTurn(g, acts) ==
    IF g.status # "PLAYING" THEN Throw("Game is not in playing state")
    ELSE IF Len(g.players) # 2 THEN Throw("Game does not have 2 players")
    ELSE Const(applyAction(g, 0, acts[1]).value, LAMBDA g1 :
         Const(applyAction(g1, 1, acts[2]).value, LAMBDA g2 :
         Const([g2 EXCEPT !.turn = @ + 1], LAMBDA g3 :
           Return(checkGameEnd(g3)))))

\* The cells of the explored set that lie in the grid, with their type.
exploredCells(maze, mouse) ==
    [key \in {k \in mouse.explored :
                 /\ k[2] >= 0 /\ k[2] < MazeLength(maze)
                 /\ k[1] >= 0 /\ k[1] < MazeLength(maze)} |-> maze[key[2]][key[1]]]

\* getMouseVision that reports the opponent only when it is in the lines of
\* sight of the moment.
getMouseVision_lineOfSight(g, playerIndex) ==
    IF playerIndex < 0 \/ playerIndex >= Len(g.players)
    THEN Throw("Invalid player index")
    ELSE LET mouse == g.players[playerIndex + 1].mouse
             inSight == expandExplored(g.maze, [mouse EXCEPT !.explored = {}]).explored
             exitVisible == posKey(g.exit.x, g.exit.y) \in mouse.explored
             opponent == g.players[IF playerIndex = 0 THEN 2 ELSE 1]
             opponentKey == posKey(opponent.mouse.position.x, opponent.mouse.position.y)
         IN  Return([position |-> mouse.position,
                     facing |-> mouse.facing,
                     entrance |-> g.entrance,
                     exit |-> IF exitVisible THEN <<g.exit>> ELSE <<>>,
                     opponent |-> IF Len(g.players) = 2 /\ opponentKey \in inSight
                                  THEN <<opponent.mouse.position>> ELSE <<>>,
                     exploredCells |-> exploredCells(g.maze, mouse),
                     actionHistory |-> mouse.actionHistory])

\* What a player is shown.  A field that is null in the source is <<>> here,
\* and a field that holds the value v is <<v>>.
getMouseVision(g, playerIndex) ==
    IF playerIndex < 0 \/ playerIndex >= Len(g.players)
    THEN Throw("Invalid player index")
    ELSE LET mouse == g.players[playerIndex + 1].mouse
             exitVisible == posKey(g.exit.x, g.exit.y) \in mouse.explored
             opponent == g.players[IF playerIndex = 0 THEN 2 ELSE 1]
             opponentKey == posKey(opponent.mouse.position.x, opponent.mouse.position.y)
         IN  Return([position |-> mouse.position,
                     facing |-> mouse.facing,
                     entrance |-> g.entrance,
                     exit |-> IF exitVisible THEN <<g.exit>> ELSE <<>>,
                     opponent |-> IF Len(g.players) = 2 /\ opponentKey \in mouse.explored
                                  THEN <<opponent.mouse.position>> ELSE <<>>,
                     exploredCells |-> exploredCells(g.maze, mouse),
                     actionHistory |-> mouse.actionHistory])

\* ---------------------------------------- server/lib/game.ts ("server")
\* maxTurns is optional: <<>> when it is not given, <<n>> when it is n; the
\* ceiling defaults from mazeSize when it is not given.
createGameState(mazeSize, maxTurns, existingMaze) ==
    [maze |-> existingMaze.maze,
     entrance |-> existingMaze.entrance,
     exit |-> existingMaze.exit,
     maxTurns |-> IF maxTurns = <<>>
                  THEN (mazeSize * mazeSize) \div 2
                  ELSE maxTurns[1],
     turn |-> 0,
     mice |-> <<>>]

serverApplyAction(state, mouseIndex, action) ==
    IF mouseIndex < 0 \/ mouseIndex >= Len(state.mice)
    THEN Throw("Invalid mouse index")
    ELSE LET mouse == state.mice[mouseIndex + 1]
         IN  Return([state EXCEPT
                        !.mice[mouseIndex + 1] = movedMouse(state.maze, mouse, action)])

\* serverExecuteTurn that lets the counter pass the ceiling by one turn.
serverExecuteTurn_lateCeiling(state, acts) ==
    IF Len(state.mice) # 2 THEN Throw("Need 2 mice")
    ELSE Const(serverApplyAction(state, 0, acts[1]).value, LAMBDA s1 :
         Const(serverApplyAction(s1, 1, acts[2]).value, LAMBDA s2 :
         Const([s2 EXCEPT !.turn = @ + 1], LAMBDA newState :
           LET mouse1AtExit == newState.mice[1].position = newState.exit
               mouse2AtExit == newState.mice[2].position = newState.exit
               status == IF mouse1AtExit /\ mouse2AtExit THEN "DRAW"
                         ELSE IF mouse1AtExit THEN "CREATOR_WIN"
                         ELSE IF mouse2AtExit THEN "OPPONENT_WIN"
                         ELSE IF newState.turn > newState.maxTurns THEN "DRAW"
                         ELSE "PLAYING"
           IN  Return([state |-> newState, status |-> status]))))

\* Returns the new state and the status; the status of the game the state
\* belongs to is not an input.
serverExecuteTurn(state, acts) ==
    IF Len(state.mice) # 2 THEN Throw("Need 2 mice")
    ELSE Const(serverApplyAction(state, 0, acts[1]).value, LAMBDA s1 :
         Const(serverApplyAction(s1, 1, acts[2]).value, LAMBDA s2 :
         Const([s2 EXCEPT !.turn = @ + 1], LAMBDA newState :
           LET mouse1AtExit == /\ newState.mice[1].position.x = newState.exit.x
                               /\ newState.mice[1].position.y = newState.exit.y
               mouse2AtExit == /\ newState.mice[2].position.x = newState.exit.x
                               /\ newState.mice[2].position.y = newState.exit.y
               status == IF mouse1AtExit /\ mouse2AtExit THEN "DRAW"
                         ELSE IF mouse1AtExit THEN "CREATOR_WIN"
                         ELSE IF mouse2AtExit THEN "OPPONENT_WIN"
                         ELSE IF newState.turn >= newState.maxTurns THEN "DRAW"
                         ELSE "PLAYING"
           IN  Return([state |-> newState, status |-> status]))))

\* getCell of getMouseVision: what the vision names in a neighbouring cell.
getCell(state, mouse, pos) ==
    IF pos.x = state.exit.x /\ pos.y = state.exit.y THEN "EXIT"
    ELSE IF posKey(pos.x, pos.y) \notin mouse.explored THEN "UNKNOWN"
    ELSE IF posKey(pos.x, pos.y) \in DOMAIN exploredCells(state.maze, mouse)
         THEN exploredCells(state.maze, mouse)[posKey(pos.x, pos.y)]
         ELSE "UNKNOWN"

serverGetMouseVision(state, mouseIndex) ==
    IF mouseIndex < 0 \/ mouseIndex >= Len(state.mice)
    THEN Throw("Invalid mouse index")
    ELSE LET mouse == state.mice[mouseIndex + 1]
             exitVisible == posKey(state.exit.x, state.exit.y) \in mouse.explored
             opponent == state.mice[IF mouseIndex = 0 THEN 2 ELSE 1]
         IN  Return([position |-> mouse.position,
                     facing |-> mouse.facing,
                     front |-> getCell(state, mouse,
                                  getPositionInFront(mouse.position, mouse.facing)),
                     left |-> getCell(state, mouse,
                                  getPositionInFront(mouse.position, turnLeft(mouse.facing))),
                     right |-> getCell(state, mouse,
                                  getPositionInFront(mouse.position, turnRight(mouse.facing))),
                     exitVisible |-> IF exitVisible THEN <<state.exit>> ELSE <<>>,
                     opponentVisible |->
                         IF Len(state.mice) = 2
                            /\ posKey(opponent.position.x, opponent.position.y)
                                   \in mouse.explored
                         THEN <<opponent.position>> ELSE <<>>])

\* ------------------------------------------------- SqliteGameStore
\* The mouse the store places for a player: at the entrance, facing SOUTH,
\* with only its own cell explored.
storeMouse(state) ==
    [position |-> state.entrance,
     facing |-> "SOUTH",
     explored |-> {posKey(state.entrance.x, state.entrance.y)},
     actionHistory |-> <<>>]

storeCreate(creatorId, state) ==
    [status |-> "WAITING",
     creatorId |-> creatorId,
     opponentId |-> "null",
     state |-> [state EXCEPT !.mice = <<storeMouse(state)>>]]

storeJoin(g, opponentId) ==
    IF g.status # "WAITING" THEN Throw("Game not waiting for opponent")
    ELSE IF g.opponentId # "null" THEN Throw("Game already has opponent")
    ELSE Return([g EXCEPT !.state.mice = Append(@, storeMouse(g.state)),
                          !.opponentId = opponentId,
                          !.status = "PLAYING"])

storeUpdate(g, state, status) == [g EXCEPT !.state = state, !.status = status]

\* Array.from(set): the elements of the set in a list, each once.
RECURSIVE ArrayFrom(_)
ArrayFrom(set) ==
    IF set = {} THEN <<>>
    ELSE LET first == CHOOSE key \in set : TRUE
         IN  <<first>> \o ArrayFrom(set \ {first})

\* new Set(array)
NewSet(array) == {array[k] : k \in DOMAIN array}

\* JSON.stringify writes no property whose value is undefined, so an action
\* without a turn is written as { move }; JSON.parse gives back an object
\* without the property, whose turn reads as undefined ("NONE").
stringifyAction(action) ==
    IF action.turn = "NONE" THEN [move |-> action.move]
    ELSE [turn |-> action.turn, move |-> action.move]

parseAction(object) ==
    [turn |-> IF "turn" \in DOMAIN object THEN object.turn ELSE "NONE",
     move |-> object.move]

JSONstringify(serialized) ==
    [serialized EXCEPT !.mice =
        [i \in DOMAIN serialized.mice |->
            [serialized.mice[i] EXCEPT !.actionHistory =
                [k \in DOMAIN serialized.mice[i].actionHistory |->
                    stringifyAction(serialized.mice[i].actionHistory[k])]]]]

JSONparse(json) ==
    [json EXCEPT !.mice =
        [i \in DOMAIN json.mice |->
            [json.mice[i] EXCEPT !.actionHistory =
                [k \in DOMAIN json.mice[i].actionHistory |->
                    parseAction(json.mice[i].actionHistory[k])]]]]

\* serializeState that hands the explored Sets to JSON.stringify, which
\* writes a Set as an object without properties: no key is stored.
serializeState_stringifiesSets(state) ==
    JSONstringify([state EXCEPT !.mice =
        [i \in DOMAIN state.mice |-> [state.mice[i] EXCEPT !.explored = <<>>]]])

serializeState(state) ==
    JSONstringify([state EXCEPT !.mice =
        [i \in DOMAIN state.mice |->
            [state.mice[i] EXCEPT !.explored = ArrayFrom(state.mice[i].explored)]]])

deserializeState(json) ==
    Const(JSONparse(json), LAMBDA parsed :
      [parsed EXCEPT !.mice =
          [i \in DOMAIN parsed.mice |->
              [parsed.mice[i] EXCEPT !.explored = NewSet(parsed.mice[i].explored)]]])

\* The row of the games table after the store's last write for game g:
\* create, join and update write the state they leave in the cache.
dbRow(g) ==
    [status |-> g.status,
     creator_id |-> g.creatorId,
     opponent_id |-> g.opponentId,
     game_state |-> serializeState(g.state)]

dbToGame(db) ==
    [status |-> db.status,
     creatorId |-> db.creator_id,
     opponentId |-> db.opponent_id,
     state |-> deserializeState(db.game_state)]

\* ------------------------------------------ lib/ai.ts, server/lib/ai.ts
ToolNames == {"turnLeft", "turnRight", "moveForward"}

\* generateText either throws or resolves with the tool calls of the model.
GenerateTextOutcomes ==
    {[throws |-> TRUE, toolCalls |-> <<>>]} \cup
    {[throws |-> FALSE, toolCalls |-> calls] :
        calls \in UNION {[1..n -> ToolNames] : n \in 0..MaxToolCalls}}

\* The loop over allToolCalls, then the default when no tool was called:
\* the first turn call gives the turn, any moveForward call gives the move.
decideAction(toolCalls, front, left, right) ==
    LET turnCalls == SelectSeq(toolCalls, LAMBDA c : c \in {"turnLeft", "turnRight"})
        turnDirection == IF turnCalls = <<>> THEN "NONE"
                         ELSE IF turnCalls[1] = "turnLeft" THEN "LEFT" ELSE "RIGHT"
        shouldMove == \E k \in DOMAIN toolCalls : toolCalls[k] = "moveForward"
    IN  IF turnDirection = "NONE" /\ ~shouldMove
        THEN IF front # "wall" THEN [turn |-> "NONE", move |-> TRUE]
             ELSE IF right # "wall" THEN [turn |-> "RIGHT", move |-> FALSE]
             ELSE IF left # "wall" THEN [turn |-> "LEFT", move |-> FALSE]
             ELSE [turn |-> "RIGHT", move |-> FALSE]
        ELSE [turn |-> turnDirection, move |-> shouldMove]

\* lib/ai.ts: one step in a direction, as the player's state shows it.
lookOneStep(position, facing, entrance, exit, mazeSize, cells) ==
    LET next == getPositionInFront(position, facing)
        key == posKey(next.x, next.y)
    IN  IF next.x < 0 \/ next.x >= mazeSize \/ next.y < 0 \/ next.y >= mazeSize
        THEN "wall"
        ELSE IF exit # <<>> /\ next.x = exit[1].x /\ next.y = exit[1].y THEN "exit"
        ELSE IF next.x = entrance.x /\ next.y = entrance.y THEN "start"
        ELSE IF key \notin DOMAIN cells THEN "wall"
        ELSE IF cells[key] = "WALL" THEN "wall"
        ELSE "path"

buildVisionResult(state, mazeSize) ==
    [front |-> lookOneStep(state.position, state.facing, state.entrance,
                           state.exit, mazeSize, state.exploredCells),
     left |-> lookOneStep(state.position, turnLeft(state.facing), state.entrance,
                          state.exit, mazeSize, state.exploredCells),
     right |-> lookOneStep(state.position, turnRight(state.facing), state.entrance,
                           state.exit, mazeSize, state.exploredCells)]

\* lib/ai.ts getAction.  The toolCalls log of the result is left out.
getAction(state, mazeSize, outcome) ==
    LET vision == buildVisionResult(state, mazeSize)
    IN  IF outcome.throws
        THEN [action |-> [turn |-> "NONE", move |-> TRUE]]
        ELSE [action |-> decideAction(outcome.toolCalls,
                                      vision.front, vision.left, vision.right)]

\* server/lib/ai.ts
cellToView(cell) ==
    IF cell = "EXIT" THEN "exit"
    ELSE IF cell = "UNKNOWN" THEN "unknown"
    ELSE IF cell = "WALL" THEN "wall"
    ELSE "path"

serverGetAction(vision, outcome) ==
    LET front == cellToView(vision.front)
        left == cellToView(vision.left)
        right == cellToView(vision.right)
    IN  IF outcome.throws
        THEN [action |-> [turn |-> "NONE", move |-> TRUE]]
        ELSE [action |-> decideAction(outcome.toolCalls, front, left, right)]

\* The result of the getAction call for mouse i among those that arrived.
resultOf(settled, i) == (CHOOSE r \in {settled[k] : k \in DOMAIN settled} : r.call = i)

\* getActions that lists the actions in the order the calls came back.
getActions_byArrival(settled) ==
    [actions |-> <<settled[1].action, settled[2].action>>]

\* getActions once both getAction calls have returned: the actions are
\* listed by mouse, whichever call came back first.
getActions(settled) ==
    [actions |-> <<resultOf(settled, 1).action, resultOf(settled, 2).action>>]

\* ------------------------------------------------------------- views
\* The same readings of a game in both implementations.
Mice(g) == IF variant = "server" THEN g.state.mice
           ELSE [i \in DOMAIN g.players |-> g.players[i].mouse]
Turn(g) == IF variant = "server" THEN g.state.turn ELSE g.turn
MaxTurns(g) == IF variant = "server" THEN g.state.maxTurns ELSE g.maxTurns
Maze(g) == IF variant = "server" THEN g.state.maze ELSE g.maze
Exit(g) == IF variant = "server" THEN g.state.exit ELSE g.exit
Entrance(g) == IF variant = "server" THEN g.state.entrance ELSE g.entrance
\* The outcome as one word: PLAYER1_WIN/CREATOR_WIN are "WIN1", and so on.
Outcome(g) ==
    IF variant = "server"
    THEN CASE g.status = "CREATOR_WIN" -> "WIN1"
           [] g.status = "OPPONENT_WIN" -> "WIN2"
           [] OTHER -> g.status
    ELSE IF g.status # "FINISHED" THEN g.status
         ELSE CASE g.result = "PLAYER1_WIN" -> "WIN1"
                [] g.result = "PLAYER2_WIN" -> "WIN2"
                [] OTHER -> g.result
Terminal(g) == Outcome(g) \in {"WIN1", "WIN2", "DRAW"}
AtExit(g, i) == Mice(g)[i].position = Exit(g)

\* ------------------------------------------------------------ Spec
\* A created game: createGameWithMaze, or createGameState + store.create
\* (which registers the creator at once).
CreatedGame(v, mz, maxTurns) ==
    IF v = "game"
    THEN createGameWithMaze(mz.maze, mz.entrance, mz.exit, maxTurns)
    ELSE storeCreate("creator", createGameState(MazeLength(mz.maze), <<maxTurns>>, mz))

Init ==
    /\ variant \in {"game", "server"}
    /\ \E mz \in MazeResults, maxTurns \in 1..MaxTurnsBound :
          game = CreatedGame(variant, mz, maxTurns)
    /\ thrown = "none"
    /\ pc = "none"
    /\ actions = "null"
    /\ onTurnCalls = <<>>
    /\ onGameEndCalls = <<>>
    /\ visions = "null"
    /\ results = "null"
    /\ delivered = "null"
    /\ router = "null"
    /\ isRunning = "null"
    /\ loops = "null"
    /\ gen = "null"
    /\ ws = "null"

\* The effect of a call of the core on the game: a throw leaves it as it was.
Called(call) ==
    \E r \in {call} :
       /\ game' = IF r.ok THEN r.value ELSE game
       /\ thrown' = IF r.ok THEN "none" ELSE r.error

AddPlayerCall ==
    /\ variant = "game"
    /\ Called(addPlayer(game))
    /\ UNCHANGED <<variant, pc, actions, onTurnCalls, onGameEndCalls>>
    /\ UNCHANGED turnVars

ExecuteTurnCall ==
    /\ variant = "game"
    /\ \E a0 \in MouseActions, a1 \in MouseActions :
          Called(executeTurn(game, <<a0, a1>>))
    /\ UNCHANGED <<variant, pc, actions, onTurnCalls, onGameEndCalls>>
    /\ UNCHANGED turnVars

StoreJoinCall ==
    /\ variant = "server"
    /\ Called(storeJoin(game, "opponent"))
    /\ UNCHANGED <<variant, pc, actions, onTurnCalls, onGameEndCalls>>
    /\ UNCHANGED turnVars

\* One iteration of runGameLoop: executeTurn, then gameStore.update.
serverTurn(g, acts) ==
    Const(serverExecuteTurn(g.state, acts), LAMBDA r :
      IF r.ok THEN Return(storeUpdate(g, r.value.state, r.value.status)) ELSE r)

ServerTurn ==
    /\ variant = "server"
    /\ game.status = "PLAYING"
    /\ \E a0 \in MouseActions, a1 \in MouseActions :
          Called(serverTurn(game, <<a0, a1>>))
    /\ UNCHANGED <<variant, pc, actions, onTurnCalls, onGameEndCalls>>
    /\ UNCHANGED turnVars

\* gameStore.get in a process whose cache does not hold the game (after a
\* restart): the game is read back from its row.
StoreGetFromDb ==
    /\ variant = "server"
    /\ Called(Return(dbToGame(dbRow(game))))
    /\ UNCHANGED <<variant, pc, actions, onTurnCalls, onGameEndCalls>>
    /\ UNCHANGED turnVars

\* Indexes a caller may pass that name no mouse of game g.
InvalidIndexes(g) == {index \in -1..2 : index < 0 \/ index >= Len(Mice(g))}

\* applyAction called with an index that names no mouse.
ApplyActionInvalidIndex ==
    /\ \E index \in InvalidIndexes(game), action \in MouseActions :
          IF variant = "server"
          THEN \E r \in {serverApplyAction(game.state, index, action)} :
                  /\ game' = IF r.ok THEN [game EXCEPT !.state = r.value] ELSE game
                  /\ thrown' = IF r.ok THEN "none" ELSE r.error
          ELSE Called(applyAction(game, index, action))
    /\ UNCHANGED <<variant, pc, actions, onTurnCalls, onGameEndCalls>>
    /\ UNCHANGED turnVars

\* getMouseVision called with an index that names no mouse; the vision of a
\* call that returns is not kept.
GetMouseVisionInvalidIndex ==
    /\ \E index \in InvalidIndexes(game) :
       \E r \in {IF variant = "server" THEN serverGetMouseVision(game.state, index)
                 ELSE getMouseVision(game, index)} :
          thrown' = IF r.ok THEN "none" ELSE r.error
    /\ UNCHANGED <<variant, game, pc, actions, onTurnCalls, onGameEndCalls>>
    /\ UNCHANGED turnVars

Next ==
    \/ AddPlayerCall \/ ExecuteTurnCall \/ StoreJoinCall \/ ServerTurn
    \/ StoreGetFromDb

Spec == Init /\ [][Next]_vars

\* The calls of Spec together with the calls that pass an invalid index.
NextCalls == Next \/ ApplyActionInvalidIndex \/ GetMouseVisionInvalidIndex

SpecCalls == Init /\ [][NextCalls]_vars

\* ------------------------------------------------------------ SpecLoop
\* runGame (lib/game-loop.ts) and runGameLoop (server/router.ts) driving one
\* match.  pc: "loop" at the test of the while loop, "getActions" while the
\* action provider is awaited, "onTurn" while the onTurn callback is awaited,
\* "done" once the loop has been left, "failed" if it threw.

\* Both players registered: the game the loop starts from.
StartedGame(v, mz, maxTurns) ==
    IF v = "game"
    THEN addPlayer(addPlayer(CreatedGame(v, mz, maxTurns)).value).value
    ELSE storeJoin(CreatedGame(v, mz, maxTurns), "opponent").value

InitLoop ==
    /\ variant \in {"game", "server"}
    /\ \E mz \in MazeResults, maxTurns \in 1..MaxTurnsBound :
          game = StartedGame(variant, mz, maxTurns)
    /\ thrown = "none"
    /\ pc = "loop"
    /\ actions = "null"
    /\ onTurnCalls = <<>>
    /\ onGameEndCalls = <<>>
    /\ visions = "null"
    /\ results = "null"
    /\ delivered = "null"
    /\ router = "null"
    /\ isRunning = "null"
    /\ loops = "null"
    /\ gen = "null"
    /\ ws = "null"

\* The loop goes on: the visions are taken and the actions are asked for.
RequestActions ==
    /\ pc = "loop"
    /\ game.status = "PLAYING"
    /\ pc' = "getActions"
    /\ UNCHANGED <<variant, game, thrown, actions, onTurnCalls, onGameEndCalls>>
    /\ UNCHANGED turnVars

\* runGame once the actions are there: the turn is executed and onTurn is
\* called with the new game and its turn counter.
runGameTurn_callsBackFirst(g, acts) ==
    Const(executeTurn(g, acts), LAMBDA r :
      IF r.ok
      THEN Return([game |-> r.value, onTurn |-> [game |-> g, turn |-> g.turn]])
      ELSE r)

runGameTurn(g, acts) ==
    Const(executeTurn(g, acts), LAMBDA r :
      IF r.ok
      THEN Return([game |-> r.value,
                   onTurn |-> [game |-> r.value, turn |-> r.value.turn]])
      ELSE r)

RunGameTurn ==
    /\ variant = "game"
    /\ pc = "getActions"
    /\ \E a0 \in MouseActions, a1 \in MouseActions :
          /\ actions' = <<a0, a1>>
          /\ \E r \in {runGameTurn(game, <<a0, a1>>)} :
              /\ game' = IF r.ok THEN r.value.game ELSE game
              /\ onTurnCalls' = IF r.ok THEN Append(onTurnCalls, r.value.onTurn)
                                ELSE onTurnCalls
              /\ thrown' = IF r.ok THEN "none" ELSE r.error
              /\ pc' = IF r.ok THEN "onTurn" ELSE "failed"
    /\ UNCHANGED <<variant, onGameEndCalls>>
    /\ UNCHANGED turnVars

\* The onTurn callback has returned.
OnTurnReturns ==
    /\ pc = "onTurn"
    /\ pc' = "loop"
    /\ UNCHANGED <<variant, game, thrown, actions, onTurnCalls, onGameEndCalls>>
    /\ UNCHANGED turnVars

\* runGame leaves the loop and calls onGameEnd.
GameEnded ==
    /\ variant = "game"
    /\ pc = "loop"
    /\ game.status # "PLAYING"
    /\ onGameEndCalls' = Append(onGameEndCalls,
                                [game |-> game, onTurnCalls |-> Len(onTurnCalls)])
    /\ pc' = "done"
    /\ UNCHANGED <<variant, game, thrown, actions, onTurnCalls>>
    /\ UNCHANGED turnVars

\* runGameLoop once the actions are there: executeTurn and gameStore.update.
RunGameLoopTurn ==
    /\ variant = "server"
    /\ pc = "getActions"
    /\ \E a0 \in MouseActions, a1 \in MouseActions :
          /\ actions' = <<a0, a1>>
          /\ \E r \in {serverTurn(game, <<a0, a1>>)} :
              /\ game' = IF r.ok THEN r.value ELSE game
              /\ thrown' = IF r.ok THEN "none" ELSE r.error
              /\ pc' = IF r.ok THEN "loop" ELSE "failed"
    /\ UNCHANGED <<variant, onTurnCalls, onGameEndCalls>>
    /\ UNCHANGED turnVars

\* runGameLoop leaves the loop.
LoopExit ==
    /\ variant = "server"
    /\ pc = "loop"
    /\ game.status # "PLAYING"
    /\ pc' = "done"
    /\ UNCHANGED <<variant, game, thrown, actions, onTurnCalls, onGameEndCalls>>
    /\ UNCHANGED turnVars

NextLoop ==
    \/ RequestActions
    \/ RunGameTurn
    \/ OnTurnReturns
    \/ GameEnded
    \/ RunGameLoopTurn
    \/ LoopExit

\* The action provider and the callbacks always return, so the loop never
\* waits for ever at a step it can take.
SpecLoop == InitLoop /\ [][NextLoop]_vars /\ WF_vars(NextLoop)

\* ------------------------------------------------------------ SpecTurn
\* runGameLoop of the two routers (server/router.ts), one step for each block
\* of code that runs between two awaits.  The loop is started by the join
\* that brings the second player; it waits in `await getActions(...)`
\* (pc = "getActions") with the visions of the coming turn taken, and is
\* "done" once the loop has been left (runningGames.delete(gameId) /
\* session.isRunning = false).

\* gameToResponse (store router) and serializeGame (session router): the game
\* as a reader is handed it.  Array.from(explored) is kept as the set of its
\* elements; ids, names and prompts are not part of the model.
gameToResponse(g) ==
    [status |-> g.status,
     maze |-> g.state.maze,
     entrance |-> g.state.entrance,
     exit |-> g.state.exit,
     turn |-> g.state.turn,
     maxTurns |-> g.state.maxTurns,
     mice |-> g.state.mice]

serializeGame(g) ==
    [maze |-> g.maze,
     entrance |-> g.entrance,
     exit |-> g.exit,
     players |-> [i \in DOMAIN g.players |-> [mouse |-> g.players[i].mouse]],
     turn |-> g.turn,
     maxTurns |-> g.maxTurns,
     status |-> g.status,
     result |-> g.result]

\* What broadcastGame / broadcastGameUpdate hands to the subscribers.
broadcast(g) ==
    [to |-> "subscriber",
     game |-> IF variant = "server" THEN gameToResponse(g) ELSE serializeGame(g)]

\* The top of the loop body: the two visions, both taken from game g.
loopVisions(g) ==
    IF variant = "server"
    THEN <<serverGetMouseVision(g.state, 0).value, serverGetMouseVision(g.state, 1).value>>
    ELSE <<getMouseVision(g, 0).value, getMouseVision(g, 1).value>>

\* The game after the join of the second player, as the loop finds it.
InitTurn ==
    /\ variant \in {"game", "server"}
    /\ \E mz \in MazeResults, maxTurns \in 1..MaxTurnsBound :
          game = StartedGame(variant, mz, maxTurns)
    /\ thrown = "none"
    /\ pc = "getActions"
    /\ actions = "null"
    /\ onTurnCalls = <<>>
    /\ onGameEndCalls = <<>>
    /\ visions = loopVisions(game)
    /\ results = <<>>
    /\ delivered = broadcast(game)
    /\ router = (IF variant = "server" THEN "store" ELSE "session")
    /\ isRunning = TRUE
    /\ loops = 1
    /\ gen = "null"
    /\ ws = "null"

\* One getAction call returns.  server/lib/ai.ts starts both calls at once
\* (Promise.all), lib/ai.ts awaits the first before it starts the second.
GetActionReturns ==
    /\ pc = "getActions"
    /\ \E i \in {1, 2} :
          /\ \A k \in DOMAIN results : results[k].call # i
          /\ variant = "game" => i = Len(results) + 1
          /\ \E outcome \in GenerateTextOutcomes :
                results' = Append(results,
                    [call |-> i,
                     action |->
                        IF variant = "server"
                        THEN serverGetAction(visions[i], outcome).action
                        ELSE getAction(visions[i], MazeLength(Maze(game)),
                                       outcome).action])
    /\ UNCHANGED <<variant, game, thrown, pc, actions, onTurnCalls, onGameEndCalls,
                   visions, delivered, router, isRunning, loops, gen, ws>>

\* resumeLoop that tells the subscribers between the two applyAction calls.
resumeLoop_broadcastsMidTurn(g, settled) ==
    Const(getActions(settled).actions, LAMBDA acts :
    Const(IF variant = "server" THEN serverTurn(g, acts) ELSE executeTurn(g, acts),
          LAMBDA r :
      IF ~r.ok THEN r
      ELSE Return([game |-> r.value,
                   actions |-> acts,
                   delivered |-> broadcast(
                       IF variant = "server"
                       THEN storeUpdate(g, serverApplyAction(g.state, 0, acts[1]).value,
                                        g.status)
                       ELSE applyAction(g, 0, acts[1]).value),
                   visions |-> IF r.value.status = "PLAYING"
                               THEN loopVisions(r.value) ELSE "null",
                   pc |-> IF r.value.status = "PLAYING"
                          THEN "getActions" ELSE "done"])))

\* resumeLoop that takes the visions of the next turn before it plays this one.
resumeLoop_visionsFirst(g, settled) ==
    Const(getActions(settled).actions, LAMBDA acts :
    Const(IF variant = "server" THEN serverTurn(g, acts) ELSE executeTurn(g, acts),
          LAMBDA r :
      IF ~r.ok THEN r
      ELSE Return([game |-> r.value,
                   actions |-> acts,
                   delivered |-> broadcast(r.value),
                   visions |-> IF r.value.status = "PLAYING"
                               THEN loopVisions(g) ELSE "null",
                   pc |-> IF r.value.status = "PLAYING"
                          THEN "getActions" ELSE "done"])))

\* The loop from the return of getActions to its next await or its end:
\* executeTurn (and gameStore.update), the broadcast, the test of the loop
\* and, if the game goes on, the visions of the next turn.
resumeLoop(g, settled) ==
    Const(getActions(settled).actions, LAMBDA acts :
    Const(IF variant = "server" THEN serverTurn(g, acts) ELSE executeTurn(g, acts),
          LAMBDA r :
      IF ~r.ok THEN r
      ELSE Return([game |-> r.value,
                   actions |-> acts,
                   delivered |-> broadcast(r.value),
                   visions |-> IF r.value.status = "PLAYING"
                               THEN loopVisions(r.value) ELSE "null",
                   pc |-> IF r.value.status = "PLAYING"
                          THEN "getActions" ELSE "done"])))

PlayTurn ==
    /\ pc = "getActions"
    /\ Len(results) = 2
    /\ \E r \in {resumeLoop(game, results)} :
          /\ game' = IF r.ok THEN r.value.game ELSE game
          /\ actions' = IF r.ok THEN r.value.actions ELSE actions
          /\ delivered' = IF r.ok THEN r.value.delivered ELSE delivered
          /\ visions' = IF r.ok THEN r.value.visions ELSE visions
          /\ pc' = IF r.ok THEN r.value.pc ELSE "failed"
          /\ thrown' = IF r.ok THEN "none" ELSE r.error
          /\ isRunning' = IF r.ok /\ r.value.pc = "done" THEN FALSE ELSE isRunning
          /\ loops' = IF r.ok /\ r.value.pc = "getActions" THEN loops ELSE loops - 1
    /\ results' = <<>>
    /\ UNCHANGED <<variant, onTurnCalls, onGameEndCalls, router, gen, ws>>

\* getGameProcedure: a handler that runs while the loop is at its await, or
\* after the loop, and returns the game as it is.
GetRequest ==
    /\ pc \in {"getActions", "done"}
    /\ delivered' = [to |-> "get",
                     game |-> IF variant = "server" THEN gameToResponse(game)
                              ELSE serializeGame(game)]
    /\ UNCHANGED <<variant, game, thrown, pc, actions, onTurnCalls, onGameEndCalls,
                   visions, results, router, isRunning, loops, gen, ws>>

NextTurn == GetActionReturns \/ PlayTurn \/ GetRequest

SpecTurn == InitTurn /\ [][NextTurn]_vars

\* ------------------------------------------------------------ SpecMatch
\* The requests of a client on one match, in any order, next to the game
\* loop.  Three routers serve a match:
\*   "store"    server/router.ts:1-233: the store's game, runningGames, the
\*              join of the opponent starts the loop;
\*   "session"  server/router.ts:236-570: a session with a lib Game and
\*              isRunning, the join of the second player starts the loop;
\*   "manual"   src/unnamed/part_014: a session with a lib Game and
\*              isRunning, the loop is started by startGameProcedure.
Routers == {"store", "session", "manual"}

\* joinGameProcedure up to the registration of the player.
joinGame(r, g) ==
    IF r = "store" THEN storeJoin(g, "opponent")
    ELSE IF Len(g.players) >= 2 THEN Throw("Game already has 2 players")
    ELSE IF r = "session" /\ g.status # "WAITING" THEN Throw("Game already started")
    ELSE addPlayer(g)

\* The test that guards the auto-start in joinGameProcedure (g is the game
\* after the join); the third router's join starts nothing.
joinStartsLoop(r, g, running) ==
    CASE r = "store" -> g.status = "PLAYING" /\ ~running
      [] r = "session" -> Len(g.players) = 2 /\ g.status = "PLAYING" /\ ~running
      [] OTHER -> FALSE

startGameProcedure_withoutFlag(g, running) ==
    IF g.status # "PLAYING"
    THEN Throw("Game is not ready to start (need 2 players)")
    ELSE Return([started |-> TRUE])

startGameProcedure(g, running) ==
    IF g.status # "PLAYING"
    THEN Throw("Game is not ready to start (need 2 players)")
    ELSE IF running THEN Return([started |-> FALSE])
    ELSE Return([started |-> TRUE])

InitMatch ==
    /\ router \in Routers
    /\ variant = (IF router = "store" THEN "server" ELSE "game")
    /\ \E mz \in MazeResults, maxTurns \in 1..MaxTurnsBound :
          game = CreatedGame(variant, mz, maxTurns)
    /\ thrown = "none"
    /\ pc = "none"
    /\ actions = "null"
    /\ onTurnCalls = <<>>
    /\ onGameEndCalls = <<>>
    /\ visions = "null"
    /\ results = "null"
    /\ delivered = "null"
    /\ isRunning = FALSE
    /\ loops = 0
    /\ gen = "null"
    /\ ws = "null"

\* A join request: the player is registered, the subscribers are told, the
\* loop is started if the guard allows it (runGameLoop runs up to its first
\* await), and the game is returned to the caller.
JoinRequest ==
    /\ \E r \in {joinGame(router, game)} :
          /\ game' = IF r.ok THEN r.value ELSE game
          /\ thrown' = IF r.ok THEN "none" ELSE r.error
          /\ delivered' = IF r.ok
                          THEN [to |-> "join", game |-> broadcast(r.value).game]
                          ELSE delivered
          /\ isRunning' = IF r.ok /\ joinStartsLoop(router, r.value, isRunning)
                          THEN TRUE ELSE isRunning
          /\ loops' = IF r.ok /\ joinStartsLoop(router, r.value, isRunning)
                      THEN loops + 1 ELSE loops
    /\ UNCHANGED <<variant, pc, actions, onTurnCalls, onGameEndCalls,
                   visions, results, router, gen, ws>>

\* A start request (third router only).
StartRequest ==
    /\ router = "manual"
    /\ \E r \in {startGameProcedure(game, isRunning)} :
          /\ thrown' = IF r.ok THEN "none" ELSE r.error
          /\ delivered' = IF r.ok THEN [to |-> "start", started |-> r.value.started]
                          ELSE delivered
          /\ isRunning' = IF r.ok /\ r.value.started THEN TRUE ELSE isRunning
          /\ loops' = IF r.ok /\ r.value.started THEN loops + 1 ELSE loops
    /\ UNCHANGED <<variant, game, pc, actions, onTurnCalls, onGameEndCalls,
                   visions, results, router, gen, ws>>

\* A loop resumes from `await getActions` with a pair of actions: the turn,
\* the broadcast, and the loop's exit if the game is over.  A throw of
\* executeTurn ends the loop without the reset of the flag.
LoopTurn ==
    /\ loops >= 1
    /\ \E a0 \in MouseActions, a1 \in MouseActions :
       \E r \in {IF variant = "server" THEN serverTurn(game, <<a0, a1>>)
                 ELSE executeTurn(game, <<a0, a1>>)} :
          /\ actions' = <<a0, a1>>
          /\ game' = IF r.ok THEN r.value ELSE game
          /\ thrown' = IF r.ok THEN "none" ELSE r.error
          /\ delivered' = IF r.ok THEN broadcast(r.value) ELSE delivered
          /\ isRunning' = IF r.ok /\ r.value.status # "PLAYING" THEN FALSE
                          ELSE isRunning
          /\ loops' = IF r.ok /\ r.value.status = "PLAYING" THEN loops
                      ELSE loops - 1
    /\ UNCHANGED <<variant, pc, onTurnCalls, onGameEndCalls, visions, results,
                   router, gen, ws>>

NextMatch == JoinRequest \/ StartRequest \/ LoopTurn

SpecMatch == InitMatch /\ [][NextMatch]_vars

\* ------------------------------------------------------------ SpecMaze
\* generateMaze (lib/maze.ts, src/unnamed/part_001), one step for each
\* iteration of its loops.  Every use of Math.random is a choice among the
\* candidates: the row of pickEdgePosition, the neighbour of
\* pickBiasedNeighbor (its second branch may return any of them) and of
\* carveFrom, the order of shuffle.  Mazes up to FullyRandomSize are built
\* with every choice open; for larger ones at most MaxFreeChoices choices
\* differ from the first candidate (gen.free counts the ones left), the
\* first candidate being the closest neighbour in pickBiasedNeighbor,
\* neighbors[0] in carveFrom and the unshuffled order in shuffle.
\* gen.step: "path" in generateRandomPath, "branches" in addBranchPaths,
\* "done" once generateMaze has returned.

\* pickEdgePosition: the odd coordinates 1, 3, ... below size - 1.
oddCoords(size) == {i \in 1..(size - 2) : i % 2 = 1}

pickEdgePosition(size, side, randomOdd) ==
    CASE side = "left" -> Pos(1, randomOdd)
      [] side = "right" -> Pos(size - 2, randomOdd)
      [] side = "top" -> Pos(randomOdd, 1)
      [] side = "bottom" -> Pos(randomOdd, size - 2)

manhattanDistance(a, b) ==
    (IF a.x >= b.x THEN a.x - b.x ELSE b.x - a.x)
    + (IF a.y >= b.y THEN a.y - b.y ELSE b.y - a.y)

\* The cells two steps away in the order up, down, left, right.
directions == <<Pos(0, -2), Pos(0, 2), Pos(-2, 0), Pos(2, 0)>>

insideBorder(n, size) == n.x > 0 /\ n.x < size - 1 /\ n.y > 0 /\ n.y < size - 1

\* getValidNeighbors: the list of cells the walk may go to; the target is
\* allowed even if visited, and is listed twice if it is not.
RECURSIVE getValidNeighborsFrom(_, _, _, _, _)
getValidNeighborsFrom(k, pos, size, visited, target) ==
    IF k > Len(directions) THEN <<>>
    ELSE LET n == Pos(pos.x + directions[k].x, pos.y + directions[k].y)
             unvisited == IF insideBorder(n, size) /\ posKey(n.x, n.y) \notin visited
                          THEN <<n>> ELSE <<>>
             isTarget == IF insideBorder(n, size) /\ n = target THEN <<n>> ELSE <<>>
         IN  unvisited \o isTarget
                 \o getValidNeighborsFrom(k + 1, pos, size, visited, target)

getValidNeighbors(pos, size, visited, target) ==
    getValidNeighborsFrom(1, pos, size, visited, target)

getUnvisitedNeighbors(pos, size, visited) ==
    SelectSeq([k \in DOMAIN directions |->
                  Pos(pos.x + directions[k].x, pos.y + directions[k].y)],
              LAMBDA n : insideBorder(n, size) /\ posKey(n.x, n.y) \notin visited)

\* pickBiasedNeighbor, first branch: the first neighbour of the list among
\* the closest to the target.
closestNeighbor(neighbors, target) ==
    neighbors[CHOOSE k \in DOMAIN neighbors :
        /\ \A j \in DOMAIN neighbors :
              manhattanDistance(neighbors[k], target)
                  <= manhattanDistance(neighbors[j], target)
        /\ \A j \in 1..(k - 1) :
              manhattanDistance(neighbors[j], target)
                  > manhattanDistance(neighbors[k], target)]

\* The cell between two cells two steps apart.
between(current, next) ==
    Pos(current.x + (next.x - current.x) \div 2,
        current.y + (next.y - current.y) \div 2)

\* generateMaze up to the call of generateRandomPath, and the first lines
\* of generateRandomPath.
startGenerateMaze(size, entranceRow, exitRow) ==
    LET mazeSize == IF size % 2 = 0 THEN size + 1 ELSE size
        entrance == pickEdgePosition(mazeSize, "left", entranceRow)
        exit == pickEdgePosition(mazeSize, "right", exitRow)
    IN  [step |-> "path",
         size |-> size,
         mazeSize |-> mazeSize,
         maze |-> MakeMaze(mazeSize, {}),
         entrance |-> entrance,
         exit |-> exit,
         path |-> <<entrance>>,
         visited |-> {posKey(entrance.x, entrance.y)},
         current |-> entrance,
         stack |-> <<>>,
         branchPoints |-> <<>>,
         free |-> IF mazeSize <= FullyRandomSize THEN 0 ELSE MaxFreeChoices]

\* A choice other than the first candidate is open in m, and m after it.
mayChoose(m) == m.mazeSize <= FullyRandomSize \/ m.free > 0
chosen(m) == IF m.mazeSize <= FullyRandomSize THEN m ELSE [m EXCEPT !.free = @ - 1]

\* backtrack that leaves the path and the current cell as they are.
backtrack_staysPut(m) == m

\* backtrack that goes on from the cell before the last one left on the path.
backtrack_fromCellBefore(m) ==
    LET popped == SubSeq(m.path, 1, Len(m.path) - 1)
    IN  IF Len(popped) = 0
        THEN [m EXCEPT !.path = <<m.entrance>>,
                       !.visited = {posKey(m.entrance.x, m.entrance.y)},
                       !.current = m.entrance]
        ELSE [m EXCEPT !.path = popped,
                       !.current = popped[IF Len(popped) > 1 THEN Len(popped) - 1
                                          ELSE 1]]

\* One iteration of the while loop of generateRandomPath that found no
\* neighbour: backtrack, or restart once the path is empty.
backtrack(m) ==
    LET popped == SubSeq(m.path, 1, Len(m.path) - 1)
    IN  IF Len(popped) = 0
        THEN [m EXCEPT !.path = <<m.entrance>>,
                       !.visited = {posKey(m.entrance.x, m.entrance.y)},
                       !.current = m.entrance]
        ELSE [m EXCEPT !.path = popped, !.current = popped[Len(popped)]]

\* One iteration that goes on to neighbour next.
walkTo(m, next) ==
    LET b == between(m.current, next)
    IN  [m EXCEPT !.visited = @ \cup {posKey(b.x, b.y), posKey(next.x, next.y)},
                  !.path = Append(Append(@, b), next),
                  !.current = next]

\* maze[pos.y][pos.x] = 'PATH' for every listed cell.
RECURSIVE carve(_, _)
carve(maze, cells) ==
    IF cells = <<>> THEN maze
    ELSE carve([maze EXCEPT ![cells[1].y][cells[1].x] = "PATH"], Tail(cells))

\* The elements of a list at the even indexes of the source (0, 2, ...).
RECURSIVE everyOther(_)
everyOther(list) ==
    IF Len(list) = 0 THEN <<>>
    ELSE IF Len(list) = 1 THEN list
    ELSE <<list[1]>> \o everyOther(SubSeq(list, 3, Len(list)))

\* startBranches that carves the branch points only, not the cells between.
startBranches_carvesBranchPoints(m) ==
    [m EXCEPT !.step = "branches",
              !.maze = carve(m.maze, everyOther(m.path)),
              !.visited = {posKey(m.path[k].x, m.path[k].y) : k \in DOMAIN m.path},
              !.branchPoints = everyOther(m.path),
              !.stack = <<>>]

\* Steps 3 and 4 of generateMaze up to the loop of addBranchPaths.
startBranches(m) ==
    [m EXCEPT !.step = "branches",
              !.maze = carve(m.maze, m.path),
              !.visited = {posKey(m.path[k].x, m.path[k].y) : k \in DOMAIN m.path},
              !.branchPoints = everyOther(m.path),
              !.stack = <<>>]

\* The list without its k-th element.
without(list, k) == SubSeq(list, 1, k - 1) \o SubSeq(list, k + 1, Len(list))

\* One iteration of the while loop of carveFrom that goes on to next.
carveStep(m, next) ==
    LET current == m.stack[Len(m.stack)]
        wall == between(current, next)
    IN  [m EXCEPT !.maze = carve(m.maze, <<wall, next>>),
                  !.visited = @ \cup {posKey(wall.x, wall.y), posKey(next.x, next.y)},
                  !.stack = Append(@, next)]

\* hasPath: the breadth-first search for end from start over the PATH cells
\* of the grid, as the set of cells it visits.
RECURSIVE hasPathVisited(_, _)
hasPathVisited(maze, visited) ==
    LET size == MazeLength(maze)
        found == {n \in UNION {{Pos(c.x, c.y - 1), Pos(c.x, c.y + 1),
                                Pos(c.x - 1, c.y), Pos(c.x + 1, c.y)} : c \in visited} :
                    /\ n.x >= 0 /\ n.x < size /\ n.y >= 0 /\ n.y < size
                    /\ maze[n.y][n.x] = "PATH"}
    IN  IF found \subseteq visited THEN visited
        ELSE hasPathVisited(maze, visited \cup found)

hasPath(maze, start, end) == end \in hasPathVisited(maze, {start})

\* Sizes generateMaze is called with.
MazeSizes == MinMazeSize..MaxMazeSize

InitMaze ==
    /\ variant = "game"
    /\ game = "null"
    /\ thrown = "none"
    /\ pc = "none"
    /\ actions = "null"
    /\ onTurnCalls = <<>>
    /\ onGameEndCalls = <<>>
    /\ visions = "null"
    /\ results = "null"
    /\ delivered = "null"
    /\ router = "null"
    /\ isRunning = "null"
    /\ loops = "null"
    /\ ws = "null"
    /\ \E size \in MazeSizes :
       \E entranceRow \in oddCoords(IF size % 2 = 0 THEN size + 1 ELSE size),
          exitRow \in oddCoords(IF size % 2 = 0 THEN size + 1 ELSE size) :
            gen = startGenerateMaze(size, entranceRow, exitRow)

mazeVars == <<variant, game, thrown, pc, actions, onTurnCalls, onGameEndCalls,
              visions, results, delivered, router, isRunning, loops, ws>>

PathStep ==
    /\ gen.step = "path"
    /\ gen.current # gen.exit
    /\ \E neighbors \in {getValidNeighbors(gen.current, gen.mazeSize, gen.visited,
                                            gen.exit)} :
          IF neighbors = <<>>
          THEN gen' = backtrack(gen)
          ELSE \E k \in DOMAIN neighbors :
                  IF neighbors[k] = closestNeighbor(neighbors, gen.exit)
                  THEN gen' = walkTo(gen, neighbors[k])
                  ELSE mayChoose(gen) /\ gen' = walkTo(chosen(gen), neighbors[k])
    /\ UNCHANGED mazeVars

PathDone ==
    /\ gen.step = "path"
    /\ gen.current = gen.exit
    /\ gen' = startBranches(gen)
    /\ UNCHANGED mazeVars

\* The next iteration of the for loop of addBranchPaths over the shuffled
\* branch points.
CarveStart ==
    /\ gen.step = "branches"
    /\ gen.stack = <<>>
    /\ \E k \in DOMAIN gen.branchPoints :
       \E m \in {[gen EXCEPT !.branchPoints = without(@, k),
                              !.stack = <<gen.branchPoints[k]>>]} :
          IF k = 1 THEN gen' = m ELSE mayChoose(gen) /\ gen' = chosen(m)
    /\ UNCHANGED mazeVars

CarveStep ==
    /\ gen.step = "branches"
    /\ gen.stack # <<>>
    /\ \E neighbors \in {getUnvisitedNeighbors(gen.stack[Len(gen.stack)],
                                                gen.mazeSize, gen.visited)} :
          IF neighbors = <<>>
          THEN gen' = [gen EXCEPT !.stack = SubSeq(@, 1, Len(@) - 1)]
          ELSE \E k \in DOMAIN neighbors :
                  IF k = 1 THEN gen' = carveStep(gen, neighbors[k])
                  ELSE mayChoose(gen) /\ gen' = carveStep(chosen(gen), neighbors[k])
    /\ UNCHANGED mazeVars

\* generateMaze returns { maze, entrance, exit, solutionPath }.
GenerateMazeReturns ==
    /\ gen.step = "branches"
    /\ gen.stack = <<>>
    /\ gen.branchPoints = <<>>
    /\ gen' = [step |-> "done",
               size |-> gen.size,
               maze |-> gen.maze,
               entrance |-> gen.entrance,
               exit |-> gen.exit,
               solutionPath |-> gen.path]
    /\ UNCHANGED mazeVars

\* lib/game.ts createGame; maxTurns is optional (<<>> when it is not given)
\* and generated is what its call of generateMaze(mazeSize) returned.
DEFAULT_MAX_TURNS == 200
createGame(mazeSize, maxTurns, generated) ==
    createGameWithMaze(generated.maze, generated.entrance, generated.exit,
                       IF maxTurns = <<>> THEN DEFAULT_MAX_TURNS ELSE maxTurns[1])

\* The sizes the two createGameProcedure inputs accept.
RouterMazeSizes == 7..51

MazePreview(m) == [maze |-> m.maze, entrance |-> m.entrance, exit |-> m.exit]

\* createGame(mazeSize) called with no turn ceiling, as runGame's callers
\* of the core may.
CreateGameCall ==
    /\ gen.step = "done"
    /\ gen' = [gen EXCEPT !.step = "created"]
    /\ game' = createGame(gen.size, <<>>, MazePreview(gen))
    /\ UNCHANGED <<variant, thrown, pc, actions, onTurnCalls, onGameEndCalls,
                   visions, results, delivered, router, isRunning, loops, ws>>

\* createGameProcedure of the router over the in-memory games, with no
\* maxTurns in the input.
SessionCreateGame ==
    /\ gen.step = "done"
    /\ gen' = [gen EXCEPT !.step = "created"]
    /\ gen.size \in RouterMazeSizes
    /\ \E actualMaxTurns \in {(gen.size * gen.size) \div 2} :
          game' = createGame(gen.size, <<actualMaxTurns>>, MazePreview(gen))
    /\ router' = "session"
    /\ UNCHANGED <<variant, thrown, pc, actions, onTurnCalls, onGameEndCalls,
                   visions, results, delivered, isRunning, loops, ws>>

\* createGameProcedure of the router over the game store, with no maxTurns
\* in the input.
StoreCreateGame ==
    /\ gen.step = "done"
    /\ gen' = [gen EXCEPT !.step = "created"]
    /\ gen.size \in RouterMazeSizes
    /\ game' = storeCreate("creator", createGameState(gen.size, <<>>, MazePreview(gen)))
    /\ variant' = "server"
    /\ router' = "store"
    /\ UNCHANGED <<thrown, pc, actions, onTurnCalls, onGameEndCalls,
                   visions, results, delivered, isRunning, loops, ws>>

NextMaze ==
    \/ PathStep \/ PathDone \/ CarveStart \/ CarveStep \/ GenerateMazeReturns
    \/ CreateGameCall \/ SessionCreateGame \/ StoreCreateGame

SpecMaze == InitMaze /\ [][NextMaze]_vars

\* ------------------------------------------------------------ SpecWalk
\* The while loop of generateRandomPath alone.  The loop is sequential code:
\* while its test holds it runs its next iteration, and it returns when the
\* test fails.
NextWalk == PathStep \/ PathDone

SpecWalk == InitMaze /\ [][NextWalk]_vars /\ WF_vars(PathStep) /\ WF_vars(PathDone)

\* ------------------------------------------------------------ SpecSubs
\* One WebSocket connection (server/index.ts, wss.on('connection')) next to
\* the requests and the loop of a match.  Game "g1" is the match in `game`;
\* "g2" is a second game of the same server that waits for its opponent; no
\* game has the id "g0".  ws holds the connection and the subscribers:
\*   readyState, subscribedGameId, gameCallback   the connection's variables
\*                    (gameCallback 0 is null, n the n-th closure it made),
\*   callbacks        the number of closures made so far,
\*   gameSubscribers  the set of subscribers of every game,
\*   unsubscribed     the pairs unsubscribeFromGame has been called with,
\*   broadcast        the callbacks the broadcast of the last step invoked,
\*   prompts          the prompts of the players of g1, in order of arrival.
\* delivered is what the last step handed out: a response, or the set of
\* messages sent on the socket.  The third router has no subscribeToGame:
\* its loop hands the update to the watchers of watchGameProcedure.

GameIds == {"g1", "g2"}

MaxCallbacks == 2

Prompts == {"rush", "hug the wall"}

\* p.id of players[i] (session routers), creatorId / opponentId (store).
PlayerIds == <<"creator", "opponent">>

\* session.playerSecrets, set at the join of each player.
playerSecrets == [creator |-> "secret-creator", opponent |-> "secret-opponent"]

\* message.playerId / input.playerId (store router: the id of a player) and
\* input.playerSecret (session router: a secret) as a client sends it.
Credentials(r) ==
    IF r = "store" THEN {"creator", "opponent", "undefined"}
    ELSE {"secret-creator", "secret-opponent", "undefined"}

\* The pairs of actions getActions resolves with in this specification: both
\* mice step ahead, or both turn left and stay.
LoopActions ==
    {<<a, a>> : a \in {[turn |-> "NONE", move |-> TRUE], [turn |-> "LEFT", move |-> FALSE]}}

OtherGame == CreatedGame(variant, CHOOSE mz \in MazeResults : TRUE, MaxTurnsBound)

gameById(gameId) == IF gameId = "g1" THEN game ELSE OtherGame

promptsById(gameId) ==
    IF gameId = "g1" THEN ws.prompts
    ELSE IF variant = "server" THEN <<"idle">> ELSE <<>>

\* gameToResponse with its viewer (store router).
gameToResponseFor(g, prompts, viewerPlayerId) ==
    LET isCreator == viewerPlayerId = g.creatorId
        isOpponent == viewerPlayerId = g.opponentId
        opponentPrompt == IF Len(prompts) >= 2 THEN prompts[2] ELSE "null"
        myPrompt == IF isCreator THEN prompts[1]
                    ELSE IF isOpponent THEN opponentPrompt ELSE "undefined"
    IN  [game |-> gameToResponse(g),
         myPrompt |-> IF myPrompt = "null" THEN "undefined" ELSE myPrompt]

\* serializeGame with its viewer (session router).
serializeGameFor(g, prompts, viewerPlayerId) ==
    [game |-> serializeGame(g),
     prompt |-> [i \in DOMAIN g.players |->
                   IF viewerPlayerId = PlayerIds[i] THEN prompts[i] ELSE "undefined"]]

\* serializeGame of the third router: it has no viewer.
serializeGameManual(g, prompts) ==
    [game |-> serializeGame(g),
     prompt |-> [i \in DOMAIN g.players |-> prompts[i]]]

\* "Find player ID from secret" (subscribeToGame and getGameProcedure of the
\* session router).
findViewer(g, playerSecret) ==
    IF playerSecret = "undefined" THEN "undefined"
    ELSE IF \E i \in DOMAIN g.players : playerSecrets[PlayerIds[i]] = playerSecret
    THEN PlayerIds[CHOOSE i \in DOMAIN g.players :
                      playerSecrets[PlayerIds[i]] = playerSecret]
    ELSE "undefined"

\* The view a router makes of game g for a viewer.
viewFor(r, g, prompts, viewerPlayerId) ==
    CASE r = "store" -> gameToResponseFor(g, prompts, viewerPlayerId)
      [] r = "session" -> serializeGameFor(g, prompts, viewerPlayerId)
      [] OTHER -> serializeGameManual(g, prompts)

\* The closure `gameCallback = (game) => { ... ws.send(...) }`.
gameCallback(n) == [fn |-> "gameCallback", id |-> n]

\* subscribeToGame's wrappedCallback around callback n; playerId is the
\* viewer it has captured.
wrappedCallback(n, playerId) ==
    [fn |-> "wrappedCallback", callback |-> n, playerId |-> playerId]

\* unsubscribeFromGame: Set.delete of the callback it is given.
unsubscribeFromGame(subs, gameId, callback) ==
    [subs EXCEPT ![gameId] = @ \ {callback}]

\* One call of a subscriber: the view for its viewer, sent by the callback if
\* the socket is open.
gameUpdate(r, gameId, g, prompts, w) ==
    [type |-> "gameUpdate", gameId |-> gameId, callback |-> w.callback,
     viewer |-> w.playerId, game |-> viewFor(r, g, prompts, w.playerId)]

\* broadcastGame / broadcastGameUpdate of game g1 in state g.
broadcastGame(r, g, prompts) ==
    [invoked |-> {<<"g1", w.callback>> : w \in ws.gameSubscribers["g1"]},
     sent |-> IF ws.readyState = "OPEN"
              THEN {gameUpdate(r, "g1", g, prompts, w) : w \in ws.gameSubscribers["g1"]}
              ELSE {}]

\* The update the loop of the third router hands to its watchers.
turnUpdate(g, prompts) ==
    [type |-> "turnUpdate", gameId |-> "g1", callback |-> 0,
     viewer |-> "undefined", game |-> serializeGameManual(g, prompts)]

InitSubs ==
    /\ router \in Routers
    /\ variant = (IF router = "store" THEN "server" ELSE "game")
    /\ \E mz \in MazeResults : game = CreatedGame(variant, mz, MaxTurnsBound)
    /\ thrown = "none"
    /\ pc = "none"
    /\ actions = "null"
    /\ onTurnCalls = <<>>
    /\ onGameEndCalls = <<>>
    /\ visions = "null"
    /\ results = "null"
    /\ delivered = [to |-> "none", sent |-> {}]
    /\ isRunning = FALSE
    /\ loops = 0
    /\ gen = "null"
    /\ \E prompt \in Prompts :
          ws = [readyState |-> "OPEN", subscribedGameId |-> "null",
                gameCallback |-> 0, callbacks |-> 0,
                gameSubscribers |-> [gameId \in GameIds |-> {}],
                unsubscribed |-> {}, broadcast |-> {},
                prompts |-> IF router = "store" THEN <<prompt>> ELSE <<>>]

\* ws.on('message') with type 'subscribeGame'.
SubscribeGameMessage ==
    /\ router # "manual"
    /\ ws.readyState = "OPEN"
    /\ ws.callbacks < MaxCallbacks
    /\ \E gameId \in GameIds \cup {"g0"}, playerId \in Credentials(router) :
       LET previous == ws.subscribedGameId # "null" /\ ws.gameCallback # 0
           subs == IF previous
                   THEN unsubscribeFromGame(ws.gameSubscribers, ws.subscribedGameId,
                                            gameCallback(ws.gameCallback))
                   ELSE ws.gameSubscribers
           n == ws.callbacks + 1
           subscribed == gameId \in GameIds
           viewer == IF ~subscribed THEN "undefined"
                     ELSE IF router = "store" THEN playerId
                     ELSE findViewer(gameById(gameId), playerId)
           w == wrappedCallback(n, viewer)
       IN  /\ ws' = [ws EXCEPT
                 !.callbacks = n,
                 !.unsubscribed = IF previous
                                  THEN @ \cup {<<ws.subscribedGameId, ws.gameCallback>>}
                                  ELSE @,
                 !.gameSubscribers = IF subscribed
                                     THEN [subs EXCEPT ![gameId] = @ \cup {w}]
                                     ELSE subs,
                 !.subscribedGameId = IF subscribed THEN gameId ELSE "null",
                 !.gameCallback = IF subscribed THEN n ELSE 0,
                 !.broadcast = {}]
           /\ delivered' =
                 [to |-> "socket",
                  sent |-> IF subscribed
                           THEN {gameUpdate(router, gameId, gameById(gameId),
                                            promptsById(gameId), w)}
                           ELSE {[type |-> "gameNotFound", gameId |-> gameId]}]
    /\ UNCHANGED <<variant, game, thrown, pc, actions, onTurnCalls, onGameEndCalls,
                   visions, results, router, isRunning, loops, gen>>

\* ws.on('message') with type 'unsubscribeGame'.
UnsubscribeGameMessage ==
    /\ router # "manual"
    /\ ws.readyState = "OPEN"
    /\ ws' = IF ws.subscribedGameId # "null" /\ ws.gameCallback # 0
             THEN [ws EXCEPT
                     !.gameSubscribers =
                         unsubscribeFromGame(@, ws.subscribedGameId,
                                             gameCallback(ws.gameCallback)),
                     !.unsubscribed = @ \cup {<<ws.subscribedGameId, ws.gameCallback>>},
                     !.subscribedGameId = "null",
                     !.gameCallback = 0,
                     !.broadcast = {}]
             ELSE [ws EXCEPT !.broadcast = {}]
    /\ delivered' = [to |-> "socket", sent |-> {}]
    /\ UNCHANGED <<variant, game, thrown, pc, actions, onTurnCalls, onGameEndCalls,
                   visions, results, router, isRunning, loops, gen>>

\* ws.on('close').
Close ==
    /\ router # "manual"
    /\ ws.readyState = "OPEN"
    /\ ws' = IF ws.subscribedGameId # "null" /\ ws.gameCallback # 0
             THEN [ws EXCEPT
                     !.readyState = "CLOSED",
                     !.gameSubscribers =
                         unsubscribeFromGame(@, ws.subscribedGameId,
                                             gameCallback(ws.gameCallback)),
                     !.unsubscribed = @ \cup {<<ws.subscribedGameId, ws.gameCallback>>},
                     !.broadcast = {}]
             ELSE [ws EXCEPT !.readyState = "CLOSED", !.broadcast = {}]
    /\ delivered' = [to |-> "socket", sent |-> {}]
    /\ UNCHANGED <<variant, game, thrown, pc, actions, onTurnCalls, onGameEndCalls,
                   visions, results, router, isRunning, loops, gen>>

\* joinGameProcedure: the player is registered with its prompt, the
\* subscribers are told, the loop is started if the guard allows it, and the
\* game is returned to the player who joined.
JoinGameRequest ==
    \E prompt \in Prompts :
    \E r \in {joinGame(router, game)} :
       /\ game' = IF r.ok THEN r.value ELSE game
       /\ thrown' = IF r.ok THEN "none" ELSE r.error
       /\ isRunning' = IF r.ok /\ joinStartsLoop(router, r.value, isRunning)
                       THEN TRUE ELSE isRunning
       /\ loops' = IF r.ok /\ joinStartsLoop(router, r.value, isRunning)
                   THEN loops + 1 ELSE loops
       /\ IF r.ok
          THEN LET prompts == Append(ws.prompts, prompt)
                   playerId == PlayerIds[Len(prompts)]
                   told == IF router = "manual" THEN [invoked |-> {}, sent |-> {}]
                           ELSE broadcastGame(router, r.value, prompts)
               IN  /\ ws' = [ws EXCEPT !.prompts = prompts,
                                       !.broadcast = told.invoked]
                   /\ delivered' = [to |-> "join", viewer |-> playerId,
                                    game |-> viewFor(router, r.value, prompts, playerId),
                                    sent |-> told.sent]
          ELSE /\ ws' = [ws EXCEPT !.broadcast = {}]
               /\ delivered' = [to |-> "error", sent |-> {}]
       /\ UNCHANGED <<variant, pc, actions, onTurnCalls, onGameEndCalls, visions,
                      results, router, gen>>

\* getGameProcedure.
GetGameRequest ==
    /\ \E credential \in Credentials(router) :
       LET viewer == IF router = "session" THEN findViewer(game, credential)
                     ELSE IF router = "store" THEN credential
                     ELSE "undefined"
       IN  delivered' = [to |-> "get", viewer |-> viewer,
                         game |-> viewFor(router, game, ws.prompts, viewer),
                         sent |-> {}]
    /\ ws' = [ws EXCEPT !.broadcast = {}]
    /\ UNCHANGED <<variant, game, thrown, pc, actions, onTurnCalls, onGameEndCalls,
                   visions, results, router, isRunning, loops, gen>>

\* startGameProcedure (third router).
StartGameRequest ==
    /\ router = "manual"
    /\ \E r \in {startGameProcedure(game, isRunning)} :
          /\ thrown' = IF r.ok THEN "none" ELSE r.error
          /\ delivered' = [to |-> "start", sent |-> {}]
          /\ isRunning' = IF r.ok /\ r.value.started THEN TRUE ELSE isRunning
          /\ loops' = IF r.ok /\ r.value.started THEN loops + 1 ELSE loops
    /\ UNCHANGED <<variant, game, pc, actions, onTurnCalls, onGameEndCalls,
                   visions, results, router, gen, ws>>

\* A loop resumes from `await getActions`: the turn, then the broadcast.
LoopBroadcast ==
    /\ loops >= 1
    /\ \E pair \in LoopActions :
       \E r \in {IF variant = "server" THEN serverTurn(game, pair)
                 ELSE executeTurn(game, pair)} :
          /\ actions' = pair
          /\ game' = IF r.ok THEN r.value ELSE game
          /\ thrown' = IF r.ok THEN "none" ELSE r.error
          /\ isRunning' = IF r.ok /\ r.value.status # "PLAYING" THEN FALSE
                          ELSE isRunning
          /\ loops' = IF r.ok /\ r.value.status = "PLAYING" THEN loops
                      ELSE loops - 1
          /\ IF r.ok
             THEN LET told == IF router = "manual"
                              THEN [invoked |-> {},
                                    sent |-> {turnUpdate(r.value, ws.prompts)}]
                              ELSE broadcastGame(router, r.value, ws.prompts)
                  IN  /\ ws' = [ws EXCEPT !.broadcast = told.invoked]
                      /\ delivered' = [to |-> "subscriber", sent |-> told.sent]
             ELSE /\ ws' = [ws EXCEPT !.broadcast = {}]
                  /\ delivered' = [to |-> "subscriber", sent |-> {}]
    /\ UNCHANGED <<variant, pc, onTurnCalls, onGameEndCalls, visions, results,
                   router, gen>>

NextSubs ==
    \/ SubscribeGameMessage
    \/ UnsubscribeGameMessage
    \/ Close
    \/ JoinGameRequest
    \/ GetGameRequest
    \/ StartGameRequest
    \/ LoopBroadcast

SpecSubs == InitSubs /\ [][NextSubs]_vars

\* ================================================================ claims
Players == {1, 2}
HistoryLen(g, i) == Len(Mice(g)[i].actionHistory)

\* The outcome the positions and the turn counter call for.
ExpectedOutcome(g) ==
    IF AtExit(g, 1) /\ AtExit(g, 2) THEN "DRAW"
    ELSE IF AtExit(g, 1) THEN "WIN1"
    ELSE IF AtExit(g, 2) THEN "WIN2"
    ELSE IF Turn(g) >= MaxTurns(g) THEN "DRAW"
    ELSE "PLAYING"

\* C1: once a turn has been executed, the outcome follows the priority order:
\* both mice on the exit is a DRAW, only mouse 0 a win of player 1 (creator),
\* only mouse 1 a win of player 2 (opponent), neither and turn >= maxTurns a
\* DRAW, otherwise the game is still PLAYING.
C1_OutcomePriority ==
    Turn(game) >= 1 => Outcome(game) = ExpectedOutcome(game)

\* A win on the very turn that reaches the ceiling: the exit outranks the DRAW.
C1_Witness ==
    /\ Turn(game) = MaxTurns(game)
    /\ Turn(game) >= 2
    /\ ~AtExit(game, 1)
    /\ AtExit(game, 2)
    /\ Outcome(game) = "WIN2"

\* C2: the end of the game is decided once both mice have acted in the turn:
\* every decided game holds as many actions of each mouse as turns, both mice
\* on the exit is a DRAW, and mouse 0 wins only with mouse 1 off the exit.
C2_BothMoveThenEvaluate ==
    Turn(game) >= 1 =>
        /\ \A i \in Players : HistoryLen(game, i) = Turn(game)
        /\ (AtExit(game, 1) /\ AtExit(game, 2) => Outcome(game) = "DRAW")
        /\ (Outcome(game) = "WIN1" => ~AtExit(game, 2))

\* Both mice have stepped onto the exit in the same turn, before the ceiling.
C2_Witness ==
    /\ Turn(game) >= 1
    /\ Turn(game) < MaxTurns(game)
    /\ AtExit(game, 1)
    /\ AtExit(game, 2)
    /\ Outcome(game) = "DRAW"
    /\ \A i \in Players : HistoryLen(game, i) = Turn(game) /\ Mice(game)[i].actionHistory[Turn(game)].move

ActionPairs == MouseActions \X MouseActions

\* executeTurn of the implementation in use, called on the game as it is.
ExecuteTurnOn(g, acts) ==
    IF variant = "server" THEN serverExecuteTurn(g.state, acts)
    ELSE executeTurn(g, acts)

\* C3: executeTurn on a game that is decided, or still WAITING, raises an
\* error, and a decided game never changes again.
C3_TerminalAbsorbing ==
    /\ [](game.status # "PLAYING" =>
             \A acts \in ActionPairs : ~ExecuteTurnOn(game, acts).ok)
    /\ [][Terminal(game) => game' = game]_vars

\* C4: the status is WAITING exactly while fewer than two players are
\* registered, and the game with its second player just registered is PLAYING.
C4_WaitingUntilSecondPlayer ==
    /\ Len(Mice(game)) <= 2
    /\ game.status = "WAITING" <=> Len(Mice(game)) < 2
    /\ (Len(Mice(game)) = 2 /\ Turn(game) = 0) => game.status = "PLAYING"

\* The second player has just been registered.
C4_Witness ==
    /\ Len(Mice(game)) = 2
    /\ Turn(game) = 0
    /\ game.status = "PLAYING"
    /\ thrown = "none"

\* A step that executes a turn without an error.
TurnExecuted ==
    /\ \A i \in Players :
          /\ i \in DOMAIN Mice(game)
          /\ Len(Mice(game')[i].actionHistory) = Len(Mice(game)[i].actionHistory) + 1
    /\ thrown' = "none"

\* C5: the turn counter starts at 0, grows by exactly 1 with every executed
\* turn and in no other step, never exceeds maxTurns while the game is
\* PLAYING, and the turn that brings it to maxTurns ends the game.
C5_TurnCounter ==
    /\ Turn(game) = 0
    /\ [][IF TurnExecuted THEN Turn(game') = Turn(game) + 1
                          ELSE Turn(game') = Turn(game)]_vars
    /\ [](game.status = "PLAYING" => Turn(game) <= MaxTurns(game))
    /\ [](Turn(game) >= MaxTurns(game) => Terminal(game))

\* The ceiling was reached with no mouse on the exit, and the game ended.
C5_Witness ==
    /\ Turn(game) = MaxTurns(game)
    /\ Turn(game) >= 2
    /\ \A i \in Players : ~AtExit(game, i)
    /\ Outcome(game) = "DRAW"

\* ----------------------------------------------- cells, stated on the grid
InGrid(g, pos) ==
    /\ pos.x \in 0..(MazeLength(Maze(g)) - 1)
    /\ pos.y \in 0..(MazeLength(Maze(g)) - 1)
IsPath(g, pos) == InGrid(g, pos) /\ Maze(g)[pos.y][pos.x] = "PATH"

\* The facing after an optional turn.
Turned(facing, turn) ==
    CASE turn = "LEFT" -> turnLeft(facing)
      [] turn = "RIGHT" -> turnRight(facing)
      [] OTHER -> facing

\* The cell k steps from pos in direction facing.
Ahead(pos, facing, k) ==
    CASE facing = "NORTH" -> Pos(pos.x, pos.y - k)
      [] facing = "SOUTH" -> Pos(pos.x, pos.y + k)
      [] facing = "EAST"  -> Pos(pos.x + k, pos.y)
      [] facing = "WEST"  -> Pos(pos.x - k, pos.y)

\* Keys of the cells in line of sight from pos in direction facing: the cells
\* of the grid with nothing but PATH between them and pos.
Sight(g, pos, facing) ==
    { posKey(Ahead(pos, facing, k).x, Ahead(pos, facing, k).y) :
        k \in { n \in 1..MazeLength(Maze(g)) :
                  /\ InGrid(g, Ahead(pos, facing, n))
                  /\ \A j \in 1..(n - 1) : IsPath(g, Ahead(pos, facing, j)) } }

\* What a mouse at pos with this facing perceives: its cell and three casts.
View(g, pos, facing) ==
    {posKey(pos.x, pos.y)} \cup Sight(g, pos, facing)
        \cup Sight(g, pos, turnLeft(facing)) \cup Sight(g, pos, turnRight(facing))

LastAction(g, i) == Mice(g)[i].actionHistory[HistoryLen(g, i)]
InitialFacing == IF variant = "server" THEN "SOUTH" ELSE "EAST"

\* C8: every mouse stands on a PATH cell of the grid, whatever the actions.
C8_MouseOnPath ==
    \A i \in DOMAIN Mice(game) : IsPath(game, Mice(game)[i].position)

\* A mouse asked to move off the grid in its first action: it is still on
\* the entrance.
C8_Witness ==
    \E i \in DOMAIN Mice(game) :
        /\ HistoryLen(game, i) = 1
        /\ LastAction(game, i).move
        /\ ~InGrid(game, getPositionInFront(Mice(game)[i].position, Mice(game)[i].facing))
        /\ Mice(game)[i].position = Entrance(game)
        /\ IsPath(game, Mice(game)[i].position)

\* Mouse i acts in this step: its history grows by one action.
Acts(i) ==
    /\ i \in DOMAIN Mice(game)
    /\ HistoryLen(game', i) = HistoryLen(game, i) + 1

\* The move of mouse i in this step is asked for and blocked.
BlockedMove(i) ==
    /\ Acts(i)
    /\ LastAction(game', i).move
    /\ ~IsPath(game, getPositionInFront(Mice(game)[i].position,
                        Turned(Mice(game)[i].facing, LastAction(game', i).turn)))

\* C9: a move into a WALL or off the grid is no error: the position stays, the
\* facing takes the turn, the action is appended to the history, and the cast
\* is run from the same position with the new facing.
C9_BlockedMove ==
    [][\A i \in Players :
          BlockedMove(i) =>
            LET old == Mice(game)[i]
                new == Mice(game')[i]
                act == LastAction(game', i)
            IN  /\ thrown' = "none"
                /\ new.position = old.position
                /\ new.facing = Turned(old.facing, act.turn)
                /\ new.actionHistory = Append(old.actionHistory, act)
                /\ new.explored =
                       old.explored \cup View(game, old.position, new.facing)]_vars

\* A mouse that turned towards a WALL and asked to move in its first action:
\* it is on the entrance with the new facing, and remembers the wall.
C9_Witness ==
    \E i \in DOMAIN Mice(game) :
        LET m == Mice(game)[i]
            front == getPositionInFront(m.position, m.facing)
        IN  /\ HistoryLen(game, i) = 1
            /\ LastAction(game, i).move
            /\ LastAction(game, i).turn # "NONE"
            /\ m.position = Entrance(game)
            /\ m.facing = Turned(InitialFacing, LastAction(game, i).turn)
            /\ InGrid(game, front)
            /\ ~IsPath(game, front)
            /\ posKey(front.x, front.y) \in m.explored

\* C10: the explored set of a mouse only grows: every step leaves each mouse
\* in place with an explored set that holds all it held before.
C10_ExploredMonotonic ==
    [][/\ DOMAIN Mice(game) \subseteq DOMAIN Mice(game')
       /\ \A i \in DOMAIN Mice(game) :
             Mice(game)[i].explored \subseteq Mice(game')[i].explored]_vars

\* A mouse that has left the entrance and remembers a cell it no longer sees.
C10_Witness ==
    \E i \in DOMAIN Mice(game) :
        LET m == Mice(game)[i]
        IN  /\ HistoryLen(game, i) >= 1
            /\ m.position # Entrance(game)
            /\ View(game, m.position, m.facing) \subseteq m.explored
            /\ m.explored \ View(game, m.position, m.facing) # {}

\* C6: with an action provider that always returns, the loop is left after at
\* most maxTurns turns with the game decided, and takes no step after that;
\* a game that ends with no mouse on the exit has run exactly maxTurns turns
\* and is a DRAW.
C6_LoopTerminates ==
    /\ <>(pc = "done")
    /\ [](Turn(game) <= MaxTurns(game))
    /\ [](pc = "done" =>
             /\ Terminal(game)
             /\ \A i \in Players : HistoryLen(game, i) = Turn(game)
             /\ (\A i \in Players : ~AtExit(game, i)) =>
                    Turn(game) = MaxTurns(game) /\ Outcome(game) = "DRAW")
    /\ [][pc # "done"]_vars

\* A loop that was left after maxTurns turns with no mouse on the exit.
C6_Witness ==
    /\ pc = "done"
    /\ Turn(game) = MaxTurns(game)
    /\ Turn(game) >= 2
    /\ \A i \in Players : ~AtExit(game, i)
    /\ Outcome(game) = "DRAW"

\* C7: runGame calls onTurn once per turn, after turns 1, 2, ... in order,
\* with the game as the turn left it, and calls onGameEnd exactly once, after
\* the last onTurn, with the decided game.
C7_Callbacks ==
    variant = "game" =>
        /\ Len(onTurnCalls) = Turn(game)
        /\ \A k \in DOMAIN onTurnCalls :
              /\ onTurnCalls[k].turn = k
              /\ onTurnCalls[k].game.turn = k
              /\ \A i \in Players : Len(onTurnCalls[k].game.players[i].mouse.actionHistory) = k
        /\ onTurnCalls # <<>> => onTurnCalls[Len(onTurnCalls)].game = game
        /\ Len(onGameEndCalls) = IF pc = "done" THEN 1 ELSE 0
        /\ \A k \in DOMAIN onGameEndCalls :
              /\ onGameEndCalls[k].game = game
              /\ onGameEndCalls[k].game.status = "FINISHED"
              /\ onGameEndCalls[k].onTurnCalls = Turn(game)

\* A run of two turns: onTurn after turn 1 and turn 2, then onGameEnd.
C7_Witness ==
    /\ variant = "game"
    /\ pc = "done"
    /\ Len(onTurnCalls) = 2
    /\ onTurnCalls[1].game.status = "PLAYING"
    /\ onTurnCalls[2].game.status = "FINISHED"
    /\ Len(onGameEndCalls) = 1

\* C11: from registration onward every mouse's explored set holds the cell
\* the mouse stands on.
C11_ExploredHoldsOwnCell ==
    \A i \in DOMAIN Mice(game) :
        LET m == Mice(game)[i]
        IN  posKey(m.position.x, m.position.y) \in m.explored

\* A mouse the store registered with its own cell only, after it has walked
\* to another cell.
C11_Witness ==
    /\ variant = "server"
    /\ \E i \in DOMAIN Mice(game) :
          LET m == Mice(game)[i]
          IN  /\ m.position # Entrance(game)
              /\ Len(m.actionHistory) = 1
              /\ posKey(m.position.x, m.position.y) \in m.explored

\* C12: a mouse no action has been applied to stands on the entrance with the
\* starting facing of its implementation, and its explored set already holds
\* the initial cast: its cell and the lines of sight ahead, left and right.
C12_InitialCast ==
    \A i \in DOMAIN Mice(game) :
        LET m == Mice(game)[i]
        IN  HistoryLen(game, i) = 0 =>
                /\ m.position = Entrance(game)
                /\ m.facing = InitialFacing
                /\ View(game, m.position, m.facing) \subseteq m.explored

\* The positions of the grid of game g.
Cells(g) ==
    { Pos(x, y) : x \in 0..(MazeLength(Maze(g)) - 1),
                  y \in 0..(MazeLength(Maze(g)) - 1) }

\* C13: a cast from any cell of the maze in any direction adds exactly the
\* cells of that line up to and including the first WALL, or up to the edge
\* of the grid; and an applied action adds to a mouse's explored set exactly
\* its new cell and the casts ahead, to the left and to the right of its new
\* facing, so nothing from behind it and nothing beyond a wall.
C13_LineOfSightCast ==
    /\ \A p \in Cells(game), d \in Facings :
          exploreDirection(Maze(game), [explored |-> {}], p, d).explored
              = Sight(game, p, d)
    /\ [][\A i \in Players :
            Acts(i) =>
              LET old == Mice(game)[i]
                  new == Mice(game')[i]
              IN  new.explored =
                      old.explored \cup {posKey(new.position.x, new.position.y)}
                          \cup Sight(game, new.position, new.facing)
                          \cup Sight(game, new.position, turnLeft(new.facing))
                          \cup Sight(game, new.position, turnRight(new.facing))]_vars

\* A mouse after its first action that remembers a wall beside it, not the
\* PATH cell beyond that wall, and not the cell of the grid behind it.
C13_Witness ==
    \E i \in DOMAIN Mice(game) :
        LET m == Mice(game)[i]
            back == Ahead(m.position, turnLeft(turnLeft(m.facing)), 1)
        IN  /\ HistoryLen(game, i) = 1
            /\ InGrid(game, back)
            /\ posKey(back.x, back.y) \notin m.explored
            /\ \E d \in {turnLeft(m.facing), turnRight(m.facing)} :
                  /\ ~IsPath(game, Ahead(m.position, d, 1))
                  /\ IsPath(game, Ahead(m.position, d, 2))
                  /\ posKey(Ahead(m.position, d, 1).x, Ahead(m.position, d, 1).y)
                         \in m.explored
                  /\ posKey(Ahead(m.position, d, 2).x, Ahead(m.position, d, 2).y)
                         \notin m.explored

\* The vision of mouse i (1 or 2) of the game, in either implementation, as
\* the pair of its nullable exit and opponent fields.
VisionOf(g, i) ==
    IF variant = "game"
    THEN [exit |-> getMouseVision(g, i - 1).value.exit,
          opponent |-> getMouseVision(g, i - 1).value.opponent]
    ELSE [exit |-> serverGetMouseVision(g.state, i - 1).value.exitVisible,
          opponent |-> serverGetMouseVision(g.state, i - 1).value.opponentVisible]

\* C14: the vision names the exit exactly when the exit's cell is in the
\* viewer's explored set and names the opponent's position exactly when the
\* opponent's cell is; the field is null otherwise.
C14_VisionByMemory ==
    \A i \in DOMAIN Mice(game) :
        LET m == Mice(game)[i]
            e == Exit(game)
        IN  /\ VisionOf(game, i).exit =
                   IF posKey(e.x, e.y) \in m.explored THEN <<e>> ELSE <<>>
            /\ VisionOf(game, i).opponent =
                   IF /\ (3 - i) \in DOMAIN Mice(game)
                      /\ posKey(Mice(game)[3 - i].position.x,
                                Mice(game)[3 - i].position.y) \in m.explored
                   THEN <<Mice(game)[3 - i].position>> ELSE <<>>

\* A mouse is shown an opponent that is outside its lines of sight but on a
\* cell it remembers, while that opponent is not shown the mouse.
C14_Witness ==
    \E i \in Players :
        /\ DOMAIN Mice(game) = Players
        /\ VisionOf(game, i).opponent = <<Mice(game)[3 - i].position>>
        /\ posKey(Mice(game)[3 - i].position.x, Mice(game)[3 - i].position.y)
               \notin View(game, Mice(game)[i].position, Mice(game)[i].facing)
        /\ VisionOf(game, 3 - i).opponent = <<>>

\* C15: between turns both histories are as long as the turn counter, and a
\* turn appends to the history of mouse i exactly the action the provider
\* supplied for mouse i, whether or not its move was blocked.
C15_ActionHistory ==
    /\ [](pc \in {"loop", "onTurn", "done"} =>
             \A i \in Players : HistoryLen(game, i) = Turn(game))
    /\ [][Turn(game') # Turn(game) =>
             /\ Turn(game') = Turn(game) + 1
             /\ \A i \in Players :
                   Mice(game')[i].actionHistory =
                       Append(Mice(game)[i].actionHistory, actions'[i])]_vars

\* After two turns a mouse's history holds both supplied actions, the first
\* of them a move that a wall blocked.
C15_Witness ==
    /\ pc = "loop"
    /\ Turn(game) = 2
    /\ \E i \in Players :
          LET m == Mice(game)[i]
          IN  /\ m.actionHistory[2] = actions[i]
              /\ m.actionHistory[1] # actions[i]
              /\ m.actionHistory[1].move
              /\ m.actionHistory[1].turn = "RIGHT"
              /\ ~m.actionHistory[2].move
              /\ m.position = Entrance(game)

\* C16: turns of a match are strictly sequential.  While the loop waits for the
\* actions, the two visions in use are the ones of the game as the last turn
\* left it, both taken from that one state; and the game changes only once
\* both getAction calls have returned, by the turn played with their actions.
C16_WaitingOnCurrentState ==
    pc = "getActions" =>
        /\ visions = loopVisions(game)
        /\ Len(visions) = 2

C16_TurnAfterBothActions ==
    game' # game =>
        /\ Len(results) = 2
        /\ {results[k].call : k \in DOMAIN results} = {1, 2}
        /\ actions' = <<resultOf(results, 1).action, resultOf(results, 2).action>>
        /\ Turn(game') = Turn(game) + 1

C16_SequentialTurns ==
    [](C16_WaitingOnCurrentState) /\ [][C16_TurnAfterBothActions]_vars

C16_Witness ==
    /\ pc = "getActions"
    /\ Turn(game) = 1
    /\ Len(results) = 2
    /\ visions = loopVisions(game)
    /\ \E i \in 1..2 : visions[i].position # Entrance(game)

\* The mice of game g after the two actions applied in the other order:
\* mouse 1's action first, then mouse 0's.
MiceSecondFirst(g, acts) ==
    IF variant = "server"
    THEN serverApplyAction(serverApplyAction(g.state, 1, acts[2]).value, 0, acts[1]).value.mice
    ELSE LET g2 == applyAction(applyAction(g, 1, acts[2]).value, 0, acts[1]).value
         IN  [i \in DOMAIN g2.players |-> g2.players[i].mouse]

TurnOf(g, acts) ==
    IF variant = "server" THEN serverTurn(g, acts).value ELSE executeTurn(g, acts).value

\* C17: the state after a turn is a function of the state before it and of
\* the pair of actions ordered by mouse, whichever getAction call returned
\* first, and its mice are the ones that applying mouse 1's action before
\* mouse 0's would give.
C17_TurnStep ==
    game' # game =>
        \E acts \in {<<resultOf(results, 1).action, resultOf(results, 2).action>>} :
            /\ game' = TurnOf(game, acts)
            /\ Mice(game') = MiceSecondFirst(game, acts)

C17_OrderIndependent == [][C17_TurnStep]_vars

C17_Witness ==
    /\ pc = "getActions"
    /\ Turn(game) = 1
    /\ Len(results) = 2
    /\ results[1].call = 2
    /\ results[1].action # results[2].action
    /\ Mice(game)[1].position = Mice(game)[2].position
    /\ Mice(game)[1].position # Entrance(game)

\* C18: whatever the order of the join and start requests on a match, at
\* most one game loop is active for it at any time, and a request that
\* arrives while a loop is running starts no other.
C18_LoopsBounded ==
    /\ loops \in {0, 1}
    /\ loops = 1 => isRunning = TRUE

C18_RequestStartsNoSecond ==
    loops >= 1 => loops' <= loops

C18_AtMostOneLoop == [](C18_LoopsBounded) /\ [][C18_RequestStartsNoSecond]_vars

C18_Witness ==
    /\ loops = 1
    /\ Turn(game) >= 1
    /\ \/ delivered = [to |-> "start", started |-> FALSE]
       \/ thrown \in {"Game already has 2 players", "Game already started",
                      "Game not waiting for opponent"}

\* The game a reader was handed, read as a game of the implementation.
AsGame(d) ==
    IF variant = "server"
    THEN [status |-> d.status,
          state |-> [maze |-> d.maze, entrance |-> d.entrance, exit |-> d.exit,
                     turn |-> d.turn, maxTurns |-> d.maxTurns, mice |-> d.mice]]
    ELSE d

\* C19: a game returned by a get request or handed to a subscriber while the
\* loop runs is the game after a whole number of turns: both mice have as
\* many recorded actions as the turn counter says, the status is the one the
\* positions and the counter call for, and counter, mice and status are
\* those of one state, the one the last completed turn left.
C19_WholeTurnSnapshots ==
    delivered.to \in {"get", "subscriber"} =>
        \E d \in {AsGame(delivered.game)} :
            /\ \A i \in Players : HistoryLen(d, i) = Turn(d)
            /\ Outcome(d) = ExpectedOutcome(d)
            /\ Turn(d) = Turn(game)
            /\ Mice(d) = Mice(game)
            /\ Outcome(d) = Outcome(game)

C19_Witness ==
    /\ pc = "getActions"
    /\ delivered.to = "get"
    /\ Len(results) = 1
    /\ Turn(game) = 1
    /\ \E i \in Players : Mice(AsGame(delivered.game))[i].position # Entrance(game)

\* The three cells next to mouse i as the action provider is shown them.
ViewOf(i) ==
    IF variant = "server"
    THEN [front |-> cellToView(visions[i].front),
          left |-> cellToView(visions[i].left),
          right |-> cellToView(visions[i].right)]
    ELSE buildVisionResult(visions[i], MazeLength(Maze(game)))

\* The default action: forward if the front is not a wall, else a turn
\* toward a side that is not a wall, else a turn to the right.
DefaultAction(view) ==
    IF view.front # "wall" THEN [turn |-> "NONE", move |-> TRUE]
    ELSE IF view.right # "wall" THEN [turn |-> "RIGHT", move |-> FALSE]
    ELSE IF view.left # "wall" THEN [turn |-> "LEFT", move |-> FALSE]
    ELSE [turn |-> "RIGHT", move |-> FALSE]

ActionFor(i, outcome) ==
    IF variant = "server" THEN serverGetAction(visions[i], outcome).action
    ELSE getAction(visions[i], MazeLength(Maze(game)), outcome).action

\* C20: when generateText fails, or resolves without a tool call, the mouse
\* is given the default action: forward if the front cell is not a wall,
\* else a turn toward a side that is not a wall, else a turn to the right.
C20_DefaultOnFailure ==
    pc = "getActions" =>
        \A i \in Players, outcome \in GenerateTextOutcomes :
            (outcome.throws \/ outcome.toolCalls = <<>>) =>
                ActionFor(i, outcome) = DefaultAction(ViewOf(i))

\* The calls the core has to reject on game g all throw: applyAction and
\* getMouseVision with an index that names no mouse, executeTurn on a game
\* without exactly two mice.
RejectsInvalid(g) ==
    /\ \A index \in InvalidIndexes(g) :
          /\ \A action \in MouseActions :
                ~(IF variant = "server" THEN serverApplyAction(g.state, index, action)
                  ELSE applyAction(g, index, action)).ok
          /\ ~(IF variant = "server" THEN serverGetMouseVision(g.state, index)
               ELSE getMouseVision(g, index)).ok
    /\ Len(Mice(g)) # 2 =>
          \A a0 \in MouseActions, a1 \in MouseActions :
              ~(IF variant = "server" THEN serverExecuteTurn(g.state, <<a0, a1>>)
                ELSE executeTurn(g, <<a0, a1>>)).ok

\* C21: a rejected operation leaves the game unchanged.  applyAction and
\* getMouseVision with an invalid mouse index, and executeTurn on a game that
\* does not have exactly two mice, raise an error, and a call that raised an
\* error has changed no position, facing, explored set, actionHistory, turn
\* counter or status.
C21_ThrowChangesNothing ==
    thrown' # "none" => game' = game

C21_RejectedLeavesGame ==
    [](RejectsInvalid(game)) /\ [][C21_ThrowChangesNothing]_vars

C21_Witness ==
    /\ thrown \in {"Invalid player index", "Invalid mouse index"}
    /\ Turn(game) >= 1
    /\ \E i \in Players : Mice(game)[i].position # Entrance(game)

\* A registration of a player: addPlayer, or the store's join.
Registration == AddPlayerCall \/ StoreJoinCall

\* C22: registering a player on a game that already has two players, or on a
\* match that is no longer WAITING, is rejected with an error and adds no
\* mouse; whatever the order of the registrations, a game never has more
\* than two players.
C22_RejectedRegistration ==
    (Registration /\ (Len(Mice(game)) >= 2 \/ game.status # "WAITING")) =>
        (thrown' # "none" /\ Mice(game') = Mice(game))

C22_AtMostTwoPlayers ==
    [](Len(Mice(game)) <= 2) /\ [][C22_RejectedRegistration]_vars

C22_Witness ==
    /\ thrown \in {"Game already has 2 players", "Game not waiting for opponent"}
    /\ Len(Mice(game)) = 2
    /\ Turn(game) >= 1

\* A step of the loop that leaves it without a turn: the game stays as it is
\* and no action is applied.
CancelledStep ==
    /\ NextLoop
    /\ pc' \in {"done", "cancelled"}
    /\ game' = game
    /\ thrown' = "none"

\* C23: a running match loop can be cancelled at the top of an iteration,
\* before the next pair of actions is requested: while the game is being
\* played, the loop at the test of its while has a step that ends it and
\* applies no further turn.
C23_CancellableAtLoopTop ==
    (pc = "loop" /\ game.status = "PLAYING") => ENABLED CancelledStep

\* generateMaze has returned for a size of the range 7..51.
Generated == gen.step = "done" /\ gen.size >= 7

\* The maze is solvable and entrance and exit are PATH cells of it, the
\* entrance in column 1.
SolvableMaze ==
    /\ hasPath(gen.maze, gen.entrance, gen.exit)
    /\ gen.maze[gen.entrance.y][gen.entrance.x] = "PATH"
    /\ gen.maze[gen.exit.y][gen.exit.x] = "PATH"
    /\ gen.entrance.x = 1

\* C24 as stated: for every maze produced by generateMaze with a size in
\* 7..51 the exit is reachable from the entrance through 4-connected PATH
\* cells, entrance and exit are PATH cells, entrance.x = 1 and
\* exit.x = size - 2, size being the size generateMaze was called with.
C24_ExitAtSizeMinusTwo ==
    Generated => (SolvableMaze /\ gen.exit.x = gen.size - 2)

\* C24, amended: the same with exit.x = side - 2, side being the side length
\* of the maze: the size if it is odd, the size plus one if it is even.
C24_SolvableMaze ==
    Generated =>
        /\ SolvableMaze
        /\ MazeLength(gen.maze) = (IF gen.size % 2 = 0 THEN gen.size + 1 ELSE gen.size)
        /\ gen.exit.x = MazeLength(gen.maze) - 2

C24_Witness ==
    /\ Generated
    /\ gen.size = 8
    /\ gen.exit.x = 7
    /\ gen.entrance.y # gen.exit.y
    /\ hasPath(gen.maze, gen.entrance, gen.exit)

\* Two cells next to each other in the grid.
Adjacent(a, b) == manhattanDistance(a, b) = 1

\* A walk from the entrance whose consecutive cells are 4-adjacent.
ConnectedFromEntrance(path) ==
    /\ Len(path) >= 1
    /\ path[1] = gen.entrance
    /\ \A k \in 1..(Len(path) - 1) : Adjacent(path[k], path[k + 1])

\* C25: the solutionPath returned by generateMaze starts at the entrance,
\* ends at the exit, consists only of PATH cells of the returned maze, and
\* every two consecutive cells of it are 4-adjacent; the path under
\* construction is such a walk from the entrance at every step, also after
\* it has backtracked out of a dead end or restarted.
C25_SolutionPath ==
    /\ gen.step = "path" =>
          /\ ConnectedFromEntrance(gen.path)
          /\ gen.path[Len(gen.path)] = gen.current
    /\ gen.step = "done" =>
          /\ ConnectedFromEntrance(gen.solutionPath)
          /\ gen.solutionPath[Len(gen.solutionPath)] = gen.exit
          /\ \A k \in DOMAIN gen.solutionPath :
                gen.maze[gen.solutionPath[k].y][gen.solutionPath[k].x] = "PATH"

\* A returned path of even length: the walk has backtracked (every step of
\* the walk adds two cells to the entrance, a backtrack takes one away).
C25_Witness ==
    /\ gen.step = "done"
    /\ gen.solutionPath[Len(gen.solutionPath)] = gen.exit
    /\ \E k \in DOMAIN gen.solutionPath :
          /\ k % 2 = 1
          /\ gen.solutionPath[k].x % 2 = 0 \/ gen.solutionPath[k].y % 2 = 0

\* C26: turning is a rotation group on the four facings: LEFT four times, or
\* RIGHT four times, returns the facing to its original value, and LEFT then
\* RIGHT, or RIGHT then LEFT, leaves the facing unchanged, for every facing
\* and so for the facing of every mouse of every game.
MouseFacings == {Mice(game)[i].facing : i \in DOMAIN Mice(game)}
C26_RotationGroup ==
    /\ MouseFacings \subseteq Facings
    /\ \A facing \in Facings \cup MouseFacings :
          /\ turnLeft(facing) \in Facings
          /\ turnRight(facing) \in Facings
          /\ turnLeft(turnLeft(turnLeft(turnLeft(facing)))) = facing
          /\ turnRight(turnRight(turnRight(turnRight(facing)))) = facing
          /\ turnRight(turnLeft(facing)) = facing
          /\ turnLeft(turnRight(facing)) = facing

\* A mouse that turned left and one that turned right, off the initial EAST.
C26_Witness ==
    /\ Len(Mice(game)) = 2
    /\ Len(Mice(game)[1].actionHistory) = 1
    /\ Mice(game)[1].actionHistory[1].turn = "LEFT"
    /\ Mice(game)[1].facing = "NORTH"
    /\ Mice(game)[2].actionHistory[1].turn = "RIGHT"
    /\ Mice(game)[2].facing = "SOUTH"

\* C27: within one action the turn is applied before the move: after an
\* action with a turn and move = true the mouse faces the turned way, and it
\* stands on the cell in front of its old position in the NEW facing when
\* that cell is in bounds and PATH, and on its old position otherwise.
TurnThenMove(maze, old, new) ==
    LET action == new.actionHistory[Len(new.actionHistory)]
        newFacing == CASE action.turn = "LEFT" -> turnLeft(old.facing)
                       [] action.turn = "RIGHT" -> turnRight(old.facing)
                       [] OTHER -> old.facing
        front == getPositionInFront(old.position, newFacing)
        open == /\ front.x \in 0..(MazeLength(maze) - 1)
                /\ front.y \in 0..(MazeLength(maze) - 1)
                /\ maze[front.y][front.x] = "PATH"
    IN  /\ new.facing = newFacing
        /\ new.position = IF action.move /\ open THEN front ELSE old.position
C27_ActedMouse ==
    \A i \in DOMAIN Mice(game) :
       (/\ i \in DOMAIN Mice(game')
        /\ Len(Mice(game')[i].actionHistory) = Len(Mice(game)[i].actionHistory) + 1)
       => TurnThenMove(Maze(game), Mice(game)[i], Mice(game')[i])
C27_TurnBeforeMove == [][C27_ActedMouse]_vars

\* The first mouse turned RIGHT at the entrance and moved in the same
\* action: it stands on the cell south of the entrance, not east of it.
C27_Witness ==
    /\ Len(Mice(game)) = 2
    /\ Mice(game)[1].actionHistory = <<[turn |-> "RIGHT", move |-> TRUE]>>
    /\ Mice(game)[1].facing = "SOUTH"
    /\ Mice(game)[1].position = getPositionInFront(Entrance(game), "SOUTH")
    /\ Mice(game)[1].position # getPositionInFront(Entrance(game), "EAST")

\* C28: when no turn ceiling is given, a game's maxTurns is floor(size*size/2)
\* where size is the side length of the game's maze.
C28_DefaultMaxTurns ==
    gen.step = "created" =>
       MaxTurns(game) = (MazeLength(Maze(game)) * MazeLength(Maze(game))) \div 2

\* C29: creating a maze or a game with a size below 7 is rejected with an
\* error instead of producing a maze: no maze is returned, and no game is
\* created, for a size below 7.
C29_SmallSizeRejected ==
    gen.step \in {"done", "created"} => gen.size >= 7

\* C30: serializing a game state and deserializing it yields a state equal
\* to the original: the same maze, entrance, exit, turn and maxTurns, and for
\* each mouse the same position, facing, actionHistory and the same set of
\* explored cells; so the game read back from its row is the game stored.
RoundTrip(state) == deserializeState(serializeState(state))
SameState(a, b) ==
    /\ a.maze = b.maze
    /\ a.entrance = b.entrance
    /\ a.exit = b.exit
    /\ a.turn = b.turn
    /\ a.maxTurns = b.maxTurns
    /\ Len(a.mice) = Len(b.mice)
    /\ \A i \in DOMAIN a.mice :
          /\ a.mice[i].position = b.mice[i].position
          /\ a.mice[i].facing = b.mice[i].facing
          /\ a.mice[i].actionHistory = b.mice[i].actionHistory
          /\ a.mice[i].explored = b.mice[i].explored
C30_RoundTrip ==
    variant = "server" =>
       /\ SameState(RoundTrip(game.state), game.state)
       /\ dbToGame(dbRow(game)) = game

\* A stored game in its second turn: two mice that have seen more than one
\* cell, one with an action without a turn in its history and one with a
\* turn, whose state is written with the explored cells as arrays.
C30_Witness ==
    /\ variant = "server"
    /\ Len(game.state.mice) = 2
    /\ game.state.turn = 2
    /\ Cardinality(game.state.mice[1].explored) > 1
    /\ game.state.mice[1].actionHistory[1].turn = "NONE"
    /\ game.state.mice[2].actionHistory[1].turn = "LEFT"
    /\ Len(serializeState(game.state).mice[1].explored)
          = Cardinality(game.state.mice[1].explored)
    /\ "turn" \notin DOMAIN serializeState(game.state).mice[1].actionHistory[1]

\* C31: the one-step classification of the front, left and right cells in a
\* vision snapshot is: a cell outside the grid gives wall; the exit
\* coordinate gives exit; the entrance coordinate gives start or path; a cell
\* not yet explored gives unknown; otherwise the cell's own type.
ClaimedViews(g, mouse, pos) ==
    IF pos.x < 0 \/ pos.x >= MazeLength(Maze(g))
       \/ pos.y < 0 \/ pos.y >= MazeLength(Maze(g))
    THEN {"wall"}
    ELSE IF pos = Exit(g) THEN {"exit"}
    ELSE IF pos = Entrance(g) THEN {"start", "path"}
    ELSE IF posKey(pos.x, pos.y) \notin mouse.explored THEN {"unknown"}
    ELSE IF Maze(g)[pos.y][pos.x] = "WALL" THEN {"wall"} ELSE {"path"}

\* The snapshots a mouse is given in a turn: the one of its facing and, in
\* lib/ai.ts, the ones the turnLeft and turnRight tools answer with.
Snapshots(g, i) ==
    IF variant = "server"
    THEN {Const(serverGetMouseVision(g.state, i - 1).value, LAMBDA vision :
            [facing |-> vision.facing,
             front |-> cellToView(vision.front),
             left |-> cellToView(vision.left),
             right |-> cellToView(vision.right)])}
    ELSE {Const(buildVisionResult([getMouseVision(g, i - 1).value
                                      EXCEPT !.facing = facing],
                                  MazeLength(g.maze)), LAMBDA vision :
            [facing |-> facing, front |-> vision.front,
             left |-> vision.left, right |-> vision.right]) :
          facing \in {Mice(g)[i].facing, turnLeft(Mice(g)[i].facing),
                      turnRight(Mice(g)[i].facing)}}

AsClaimed(g, i, snapshot) ==
    LET mouse == Mice(g)[i]
    IN  /\ snapshot.front \in ClaimedViews(g, mouse,
              getPositionInFront(mouse.position, snapshot.facing))
        /\ snapshot.left \in ClaimedViews(g, mouse,
              getPositionInFront(mouse.position, turnLeft(snapshot.facing)))
        /\ snapshot.right \in ClaimedViews(g, mouse,
              getPositionInFront(mouse.position, turnRight(snapshot.facing)))

C31_OneStepClassification ==
    \A i \in DOMAIN Mice(game) :
       \A snapshot \in Snapshots(game, i) : AsClaimed(game, i, snapshot)

\* C32: the maze grid, entrance, exit and maxTurns never change after the
\* game is created, and applying an action for one mouse leaves the other
\* mouse's position, facing, explored set and actionHistory, as well as the
\* turn counter and the status, unchanged.
AppliedAction(g, index, action) ==
    IF variant = "server"
    THEN Const(serverApplyAction(g.state, index, action), LAMBDA r :
           IF r.ok THEN Return([g EXCEPT !.state = r.value]) ELSE r)
    ELSE applyAction(g, index, action)
OthersUntouched(g, index, after) ==
    /\ Len(Mice(after)) = Len(Mice(g))
    /\ \A k \in DOMAIN Mice(g) : k # index + 1 => Mice(after)[k] = Mice(g)[k]
    /\ Turn(after) = Turn(g)
    /\ after.status = g.status
    /\ Maze(after) = Maze(g)
    /\ Entrance(after) = Entrance(g)
    /\ Exit(after) = Exit(g)
    /\ MaxTurns(after) = MaxTurns(g)
C32_ApplyActionFrame ==
    \A index \in 0..(Len(Mice(game)) - 1), action \in MouseActions :
       /\ AppliedAction(game, index, action).ok
       /\ OthersUntouched(game, index, AppliedAction(game, index, action).value)
C32_CreatedFieldsKept ==
    /\ Maze(game') = Maze(game)
    /\ Entrance(game') = Entrance(game)
    /\ Exit(game') = Exit(game)
    /\ MaxTurns(game') = MaxTurns(game)
C32_Frame == [](C32_ApplyActionFrame) /\ [][C32_CreatedFieldsKept]_vars

\* A game in play after a turn in which an action applied for the first
\* mouse moves it while the second mouse has a history of its own.
C32_Witness ==
    /\ Len(Mice(game)) = 2
    /\ Turn(game) = 1
    /\ Mice(game)[2].actionHistory # <<>>
    /\ Mice(game)[2].position # Mice(game)[1].position
    /\ \E action \in MouseActions :
          Mice(AppliedAction(game, 0, action).value)[1].position
             # Mice(game)[1].position

\* C33: in every generated maze every cell whose x and y coordinates are both
\* even is WALL, also when the solution walk backtracked out of a dead end.
C33_EvenCellsAreWall ==
    gen.step \in {"done", "created"} =>
       \A y \in DOMAIN gen.maze : \A x \in DOMAIN gen.maze[y] :
          (x % 2 = 0 /\ y % 2 = 0) => gen.maze[y][x] = "WALL"

\* C34: every even-indexed cell of the solution path (indexes from 0, the
\* branch start points) has both coordinates odd, and every odd-indexed cell
\* is the connector between its two neighbours in the path, also after the
\* walk has popped cells while backtracking.
LatticeNode(p) == p.x % 2 = 1 /\ p.y % 2 = 1
WalkedPath == IF gen.step = "branches" THEN gen.path ELSE gen.solutionPath
C34_NodesAndConnectors ==
    gen.step \in {"branches", "done", "created"} =>
       \A k \in DOMAIN WalkedPath :
          /\ k % 2 = 1 => LatticeNode(WalkedPath[k])
          /\ (k % 2 = 0 /\ k < Len(WalkedPath)) =>
                WalkedPath[k] = between(WalkedPath[k - 1], WalkedPath[k + 1])

\* C35: the solution-path walk of generateMaze terminates for every maze size
\* of 7 and above: from every walk state, dead ends and backtracking
\* included, the walk eventually reaches the exit and returns.
C35_WalkTerminates ==
    (gen.step = "path" /\ gen.size >= 7) ~> (gen.step = "branches")

\* A walk for a size of 7 or more that has returned after a dead end: a cell
\* at an even index of its path lies off the odd lattice.
C35_Witness ==
    /\ gen.step = "branches"
    /\ gen.size >= 7
    /\ gen.path[Len(gen.path)] = gen.exit
    /\ \E k \in DOMAIN gen.path : k % 2 = 1 /\ ~LatticeNode(gen.path[k])

\* C36: in every state reached through executeTurn with status PLAYING,
\* neither mouse is on the exit cell (for mazes whose entrance differs from
\* the exit): a mouse that arrives on the exit ends the game in that turn.
C36_NoMouseOnExitInPlay ==
    (/\ game.status = "PLAYING"
     /\ Turn(game) >= 1
     /\ Entrance(game) # Exit(game))
    => \A i \in DOMAIN Mice(game) : Mice(game)[i].position # Exit(game)

\* A game still in play after a turn in which a mouse moved off the entrance.
C36_Witness ==
    /\ game.status = "PLAYING"
    /\ Turn(game) = 1
    /\ Entrance(game) # Exit(game)
    /\ Len(Mice(game)) = 2
    /\ Mice(game)[2].position # Entrance(game)
    /\ Mice(game)[2].actionHistory[1].move

\* C37: status and result stay consistent in every reachable state of a
\* lib/game.ts game: result is null exactly while status is WAITING or
\* PLAYING, and result is one of PLAYER1_WIN, PLAYER2_WIN or DRAW exactly
\* when status is FINISHED.
C37_StatusAndResult ==
    variant = "game" =>
       /\ game.status \in {"WAITING", "PLAYING", "FINISHED"}
       /\ game.result \in {"null", "PLAYER1_WIN", "PLAYER2_WIN", "DRAW"}
       /\ game.result = "null" <=> game.status \in {"WAITING", "PLAYING"}
       /\ game.result \in {"PLAYER1_WIN", "PLAYER2_WIN", "DRAW"}
             <=> game.status = "FINISHED"

\* A game that ran to its ceiling with no mouse on the exit: a DRAW.
C37_Witness ==
    /\ variant = "game"
    /\ game.status = "FINISHED"
    /\ game.result = "DRAW"
    /\ game.turn = game.maxTurns
    /\ \A i \in DOMAIN game.players : game.players[i].mouse.position # game.exit

\* ------------------------------------------------- subscriptions and views

\* C38: once unsubscribeFromGame(gameId, callback) has returned, no later
\* broadcast of that game invokes that callback, also when the connection has
\* moved its subscription to another game while the first game's loop runs.
C38_UnsubscribedNotInvoked == ws.broadcast \cap ws.unsubscribed = {}

\* The views the last step has served: the response of a get or a join and
\* the updates sent to the subscribers.
ServedViews ==
    {[gameId |-> m.gameId, viewer |-> m.viewer, game |-> m.game] :
        m \in {u \in delivered.sent : u.type # "gameNotFound"}}
    \cup (IF delivered.to \in {"get", "join"}
          THEN {[gameId |-> "g1", viewer |-> delivered.viewer, game |-> delivered.game]}
          ELSE {})

\* The prompts of a game with those of the players other than the viewer
\* replaced by any others.
OtherPrompts(gameId, viewer) ==
    {q \in [DOMAIN promptsById(gameId) -> Prompts \cup {"idle"}] :
        \A i \in DOMAIN q : PlayerIds[i] = viewer => q[i] = promptsById(gameId)[i]}

\* C39: a view served to a viewer (get response, join response, subscription
\* update) is the same whatever the prompts of the players other than the
\* viewer are.
C39_PromptsOfOthersHidden ==
    \A v \in ServedViews : \A q \in OtherPrompts(v.gameId, v.viewer) :
        viewFor(router, gameById(v.gameId), q, v.viewer) = v.game

====
